---------------------------- MODULE Spec2Model ----------------------------
(***************************************************************************)
(* Backtest engines of btc-quant-lab: the regime-aware trend engine        *)
(* backtestSimpleBtcTrend and the mean-reversion engine                    *)
(* backtestBtcMeanRevert, with the indicators and detectors they call;     *)
(* the walk-forward harness and the parameter optimizer that drive them;   *)
(* and the indicators called on their own.                                 *)
(*                                                                         *)
(* Numbers.  The source computes in IEEE doubles; the model computes in    *)
(* fixed point with floor division:                                        *)
(*   prices, EMA, ATR      1 unit = 1/PriceScale dollar                    *)
(*   fractions (options)   1 unit = 1/FracScale        (0.02 is 20)        *)
(*   percentages, RSI      1 unit = 1/PctScale percent (3.92% is 392)      *)
(*   equity                1 unit = 1/EquityScale      (1.0 is 100000)     *)
(* The one place where the last bit of a double matters, ema on a flat     *)
(* series, is modelled in doubles proper (see IEEE-754 doubles below).     *)
(* Array indices are the source's 0-based indices; At(s, i) reads s[i].    *)
(***************************************************************************)
EXTENDS Integers, Sequences, FiniteSets, TLC

VARIABLES engine, candles, options, pc, i,
          ema50, ema200, ema20, atr14, rsiSeries,
          htIndex, inPosition, entryPrice, entryTime, trades,
          entries, result,
          candles4h, candles1dLength, cursor, windowIndex, windowResults,
          optInput, comboIndex, allResults, runs, best, strategyJson,
          indInput, indOutput

\* The state of the optimizer
optVars == <<optInput, comboIndex, allResults, runs, best, strategyJson>>

\* An indicator called on its own: its arguments and what it has returned
indVars == <<indInput, indOutput>>

\* No indicator is being called on its own
idleInd == indInput = [ fn |-> "none" ] /\ indOutput = [ fn |-> "none" ]

\* The state of the walk-forward harness
wfVars == <<candles4h, candles1dLength, cursor, windowIndex, windowResults>>

vars == <<engine, candles, options, pc, i, ema50, ema200, ema20, atr14,
          rsiSeries, htIndex, inPosition, entryPrice, entryTime, trades,
          entries, result,
          candles4h, candles1dLength, cursor, windowIndex, windowResults,
          optInput, comboIndex, allResults, runs, best, strategyJson,
          indInput, indOutput>>

PriceScale  == 100 * 100
FracScale   == 10 * 100
PctScale    == 10 * 10
EquityScale == 1000 * 100

Dollar(d) == d * PriceScale
Cents(c)  == c * (PriceScale \div 100)

At(s, idx) == s[idx + 1]
Last(s)    == s[Len(s)]
Abs(x)     == IF x < 0 THEN -x ELSE x
Max2(a, b) == IF a >= b THEN a ELSE b
Max3(a, b, c) == Max2(a, Max2(b, c))

(***************************************************************************)
(* The not-ready sentinel of atr and rsi (new Array(n).fill(NaN)).  Every  *)
(* ready value of the two is >= 0, so -1 is free.  A comparison with NaN   *)
(* is false in the source; the model tests IsNaN before it compares.       *)
(***************************************************************************)
NaN == -1
IsNaN(x) == x = NaN

(***************************************************************************)
(* Indicators.                                                             *)
(* A for-loop over idx = lo .. hi-1 is evaluated by halving the range, so  *)
(* that a series of some hundred bars does not nest some hundred calls:    *)
(* the first half runs to its end (the series then has mid elements), then *)
(* the second half starts from what it left.                               *)
(***************************************************************************)
\* result.push(currentValue * k + prev * (1 - k)), k = 2 / (period + 1)
emaStep(values, period, idx, acc) ==
    LET currentValue == At(values, idx)
        prev == At(acc, idx - 1)
    IN  Append(acc, (currentValue * 2 + prev * (period - 1)) \div (period + 1))

RECURSIVE emaLoop(_, _, _, _, _)
emaLoop(values, period, lo, hi, acc) ==
    IF lo >= hi THEN acc
    ELSE IF hi = lo + 1 THEN emaStep(values, period, lo, acc)
    ELSE LET mid  == (lo + hi) \div 2
             left == emaLoop(values, period, lo, mid, acc)
         IN  IF Len(left) = mid THEN emaLoop(values, period, mid, hi, left)
             ELSE left

ema(values, period) ==
    IF Len(values) = 0 THEN << >>
    ELSE emaLoop(values, period, 1, Len(values), << At(values, 0) >>)

TrueRange(c, prevClose) ==
    Max3(c.high - c.low, Abs(c.high - prevClose), Abs(c.low - prevClose))

\* variant: the first average is written one bar after the period is full
atrStepLate(cs, period, idx, st) ==
    LET c  == At(cs, idx)
        tr == TrueRange(c, At(cs, idx - 1).close)
    IN  IF idx <= period + 1
        THEN [trSum  |-> st.trSum + tr,
              result |-> Append(st.result, IF idx = period + 1
                                           THEN (st.trSum + tr) \div period
                                           ELSE NaN)]
        ELSE LET prevAtr == At(st.result, idx - 1)
             IN  [trSum  |-> st.trSum,
                  result |-> Append(st.result,
                                    (prevAtr * (period - 1) + tr) \div period)]

\* st = [trSum, result]
atrStep(cs, period, idx, st) ==
    LET c  == At(cs, idx)
        tr == TrueRange(c, At(cs, idx - 1).close)
    IN  IF idx <= period
        THEN [trSum  |-> st.trSum + tr,
              result |-> Append(st.result, IF idx = period
                                           THEN (st.trSum + tr) \div period
                                           ELSE NaN)]
        ELSE LET prevAtr == At(st.result, idx - 1)
             IN  [trSum  |-> st.trSum,
                  result |-> Append(st.result,
                                    (prevAtr * (period - 1) + tr) \div period)]

RECURSIVE atrLoop(_, _, _, _, _)
atrLoop(cs, period, lo, hi, st) ==
    IF lo >= hi THEN st
    ELSE IF hi = lo + 1 THEN atrStep(cs, period, lo, st)
    ELSE LET mid  == (lo + hi) \div 2
             left == atrLoop(cs, period, lo, mid, st)
         IN  IF Len(left.result) = mid THEN atrLoop(cs, period, mid, hi, left)
             ELSE left

atr(cs, period) ==
    IF Len(cs) = 0 THEN << >>
    ELSE atrLoop(cs, period, 1, Len(cs), [trSum |-> 0, result |-> << NaN >>]).result

\* rsi = 100 - 100 / (1 + rs), rs = avgLoss === 0 ? Infinity : avgGain / avgLoss
RsiValue(avgGain, avgLoss) ==
    IF avgLoss = 0 THEN 100 * PctScale
    ELSE 100 * PctScale - (100 * PctScale * avgLoss) \div (avgLoss + avgGain)

\* st = [gain, loss]: the sums over the first period diffs
RECURSIVE rsiSeed(_, _, _, _)
rsiSeed(closes, lo, hi, st) ==
    IF lo >= hi THEN st
    ELSE IF hi = lo + 1
    THEN LET diff == At(closes, lo) - At(closes, lo - 1)
         IN  IF diff >= 0 THEN [gain |-> st.gain + diff, loss |-> st.loss]
             ELSE [gain |-> st.gain, loss |-> st.loss - diff]
    ELSE LET mid  == (lo + hi) \div 2
             left == rsiSeed(closes, lo, mid, st)
         IN  IF left.gain >= 0 THEN rsiSeed(closes, mid, hi, left) ELSE left

\* st = [avgGain, avgLoss, result]
rsiStep(closes, period, idx, st) ==
    LET diff == At(closes, idx) - At(closes, idx - 1)
        currentGain == IF diff > 0 THEN diff ELSE 0
        currentLoss == IF diff < 0 THEN -diff ELSE 0
        g == (st.avgGain * (period - 1) + currentGain) \div period
        l == (st.avgLoss * (period - 1) + currentLoss) \div period
    IN  [avgGain |-> g, avgLoss |-> l,
         result |-> Append(st.result, RsiValue(g, l))]

RECURSIVE rsiLoop(_, _, _, _, _)
rsiLoop(closes, period, lo, hi, st) ==
    IF lo >= hi THEN st
    ELSE IF hi = lo + 1 THEN rsiStep(closes, period, lo, st)
    ELSE LET mid  == (lo + hi) \div 2
             left == rsiLoop(closes, period, lo, mid, st)
         IN  IF Len(left.result) = mid THEN rsiLoop(closes, period, mid, hi, left)
             ELSE left

rsi(closes, period) ==
    IF Len(closes) < period + 1 THEN [k \in 1..Len(closes) |-> NaN]
    ELSE LET seed    == rsiSeed(closes, 1, period + 1, [gain |-> 0, loss |-> 0])
             avgGain == seed.gain \div period
             avgLoss == seed.loss \div period
         IN  rsiLoop(closes, period, period + 1, Len(closes),
                     [avgGain |-> avgGain, avgLoss |-> avgLoss,
                      result |-> [k \in 1..period |-> NaN]
                                   \o << RsiValue(avgGain, avgLoss) >>]).result

(***************************************************************************)
(* Regime classifier and breakout-cross detector                           *)
(***************************************************************************)
detectRegimeFromEma(price, emaFast, emaSlow, prevEmaSlow) ==
    LET slopeSlow == emaSlow - prevEmaSlow
    IN  IF price > emaSlow /\ emaFast > emaSlow /\ slopeSlow > 0 THEN "BULL"
        ELSE IF price < emaSlow /\ emaFast < emaSlow /\ slopeSlow < 0 THEN "BEAR"
        ELSE "RANGE"

detectSignal(price, prevPrice, ema50Value, prevEma50Value, inPos) ==
    LET crossUp   == prevPrice <= prevEma50Value /\ price > ema50Value
        crossDown == prevPrice >= prevEma50Value /\ price < ema50Value
    IN  IF ~inPos /\ crossUp THEN "LONG"
        ELSE IF inPos /\ crossDown THEN "CLOSE_LONG"
        ELSE "HOLD"

\* lookback = 10 bars, retracePct = 0.003 in per-mille
Lookback   == 10
RetracePct == 3

\* variant: the cross is taken only when the next candle closes higher
detectSignalV2Peeking(cs, idx, e50s, e200s, inPos) ==
    IF inPos THEN "HOLD"
    ELSE IF idx + 1 >= Len(cs) THEN "HOLD"
    ELSE IF /\ At(cs, idx).close > At(e200s, idx)
            /\ At(e50s, idx) > At(e200s, idx)
            /\ At(cs, idx - 1).close <= At(e50s, idx - 1)
            /\ At(cs, idx).close > At(e50s, idx)
            /\ At(cs, idx + 1).close > At(cs, idx).close
    THEN "LONG"
    ELSE "HOLD"

\* The pullback detector: an up-trend, a close at least 0.3% under the EMA50
\* within the last ten bars, and a cross up through the EMA50 on bar idx
detectSignalV2(cs, idx, e50s, e200s, inPos) ==
    IF inPos THEN "HOLD"
    ELSE LET isUpTrend  == At(cs, idx).close > At(e200s, idx)
                           /\ At(e50s, idx) > At(e200s, idx)
             firstJ     == IF idx - Lookback > 0 THEN idx - Lookback ELSE 0
             hasRetrace == \E j \in firstJ..(idx - 1) :
                              At(cs, j).close * FracScale
                                  < At(e50s, j) * (FracScale - RetracePct)
             crossUp    == At(cs, idx - 1).close <= At(e50s, idx - 1)
                           /\ At(cs, idx).close > At(e50s, idx)
         IN  IF ~isUpTrend THEN "HOLD"
             ELSE IF ~hasRetrace THEN "HOLD"
             ELSE IF crossUp THEN "LONG"
             ELSE "HOLD"

\* variant: the breakout is taken without waiting for the next candle
detectSignalV3Unconfirmed(cs, idx, e50s, e200s, inPos) ==
    IF idx < 1 \/ idx >= Len(cs) THEN "HOLD"
    ELSE IF At(cs, idx).close > At(e50s, idx) /\ At(cs, idx).close > At(e200s, idx)
            /\ At(cs, idx).close > At(cs, idx - 1).high /\ ~inPos
    THEN "LONG"
    ELSE "HOLD"

\* The loose-confirm detector: bar idx closes above both EMAs and above the
\* previous high, and candles[idx + 1] closes above candles[idx]
detectSignalV3(cs, idx, e50s, e200s, inPos) ==
    IF idx < 1 \/ idx >= Len(cs) THEN "HOLD"                     \* !c0 || !cPrev
    ELSE IF IsNaN(At(e50s, idx)) \/ At(e50s, idx) = 0
            \/ IsNaN(At(e200s, idx)) \/ At(e200s, idx) = 0
    THEN "HOLD"                                                  \* !e50 || !e200
    ELSE LET isBreakout == /\ At(cs, idx).close > At(e50s, idx)
                           /\ At(cs, idx).close > At(e200s, idx)
                           /\ At(cs, idx).close > At(cs, idx - 1).high
         IN  IF ~isBreakout THEN "HOLD"
             ELSE IF idx + 1 >= Len(cs) THEN "HOLD"               \* !cNext
             ELSE IF At(cs, idx + 1).close > At(cs, idx).close /\ ~inPos
             THEN "LONG"
             ELSE "HOLD"

(***************************************************************************)
(* Inputs.  A candle is [openTime, closeTime, high, low, close]; open and  *)
(* volume are never read by the engines.  Bar idx opens at 4*idx and       *)
(* closes at 4*idx + 3, so closeTime is strictly increasing.               *)
(***************************************************************************)
Candle(idx, close, high, low) ==
    [openTime |-> 4 * idx, closeTime |-> 4 * idx + 3,
     high |-> high, low |-> low, close |-> close]

\* Tail bars, as <<close, high, low>>
BarA == << Dollar(100), Dollar(101), Dollar(99) >>
BarB == << Dollar(96),  Dollar(99),  Cents(9550) >>
BarC == << Dollar(103), Dollar(106), Dollar(97) >>
TailBars == { BarA, BarB, BarC }

MaxTail == 4

Tails == UNION { [1..n -> TailBars] : n \in 0..MaxTail }

\* The history before the tail: a rise from 80 by 0.10 a bar, then five
\* bars back at 96.50, each bar ranging one dollar either side of its close.
TrendPrefixClose(idx) == IF idx <= 194 THEN Dollar(80) + Cents(10) * idx
                         ELSE Cents(9650)

TrendPrefix(n) ==
    [k \in 1..n |-> LET c == TrendPrefixClose(k - 1)
                    IN  Candle(k - 1, c, c + Dollar(1), c - Dollar(1))]

WithTail(prefix, tail) ==
    prefix \o [k \in 1..Len(tail) |->
                 Candle(Len(prefix) + k - 1, tail[k][1], tail[k][2], tail[k][3])]

\* A second history, with a breakout inside the first 200 bars: the same
\* rise up to bar 170, eight bars down at 93, bar 179 back above the EMA50
\* at 96, then 96.50 up to bar 199.  It is followed by at most one tail bar.
DipPrefixClose(idx) == IF idx <= 170 THEN Dollar(80) + Cents(10) * idx
                       ELSE IF idx <= 178 THEN Dollar(93)
                       ELSE IF idx = 179 THEN Dollar(96)
                       ELSE Cents(9650)

DipPrefix(n) ==
    [k \in 1..n |-> LET c == DipPrefixClose(k - 1)
                    IN  Candle(k - 1, c, c + Dollar(1), c - Dollar(1))]

DipTails == UNION { [1..n -> TailBars] : n \in 0..1 }

ShortLengths == { 0, 1, 199 }

TrendInputs == { TrendPrefix(n) : n \in ShortLengths }
                 \cup { WithTail(TrendPrefix(200), t) : t \in Tails }
                 \cup { WithTail(DipPrefix(200), t) : t \in DipTails }

\* higherTFRegime: absent, or a daily series that is BULL up to bar 200 and
\* BEAR from the close of bar 201 on
NoHTF == [times |-> << >>, regimes |-> << >>]
HTF1  == [times |-> << 4 * 199 + 3, 4 * 201 + 3 >>, regimes |-> << "BULL", "BEAR" >>]
\* The other way round: BEAR up to bar 200, BULL from the close of bar 201 on
HTF2  == [times |-> << 4 * 199 + 3, 4 * 201 + 3 >>, regimes |-> << "BEAR", "BULL" >>]
\* A series that starts after bar 200 has closed (at the close of bar 201)
\* and has two entries between the closes of bars 201 and 202
HTF3  == [times |-> << 4 * 201 + 3, 4 * 202 + 1, 4 * 202 + 3 >>,
          regimes |-> << "BULL", "BEAR", "BULL" >>]
\* A series that starts after bar 200 has closed, with BEAR
HTF4  == [times |-> << 4 * 201 + 3, 4 * 202 + 3 >>, regimes |-> << "BEAR", "BULL" >>]

\* Options outside the grid below: an RSI window whose lower bound is above
\* its upper bound, a volatility floor of 5% that no bar reaches, an empty
\* list of allowed higher-timeframe regimes, a higher timeframe that turns
\* from BEAR to BULL, one that starts after bar 200, and an RSI period of
\* 201, which leaves the RSI not ready on bar 200, and the pullback and the
\* loose-confirm signal (which wins when both are asked for), and a stop of
\* 0.8%, which the low of the entry bar itself would reach
PlainTrendOptions(useTrendFilter) ==
    [ useTrendFilter |-> useTrendFilter, useV2Signal |-> FALSE,
      useV3Signal |-> FALSE, stopLossPct |-> 20, takeProfitPct |-> 40,
      minAtrPct |-> 5, maxRsiForEntry |-> 70, minRsiForEntry |-> 30,
      rsiPeriod |-> 14, maxPremiumOverEma50 |-> 50,
      higherTFRegime |-> NoHTF, allowedHigherTFRegimes |-> << "BULL" >> ]

ExtraTrendOptions ==
    { [ PlainTrendOptions(FALSE) EXCEPT !.minRsiForEntry = 70, !.maxRsiForEntry = 30 ] }
    \cup { [ PlainTrendOptions(f) EXCEPT !.minAtrPct = 50 ] : f \in BOOLEAN }
    \cup { [ PlainTrendOptions(f) EXCEPT !.higherTFRegime = HTF1,
                                         !.allowedHigherTFRegimes = << >> ] :
             f \in BOOLEAN }
    \cup { [ PlainTrendOptions(FALSE) EXCEPT !.higherTFRegime = HTF2 ] }
    \cup { [ PlainTrendOptions(FALSE) EXCEPT !.higherTFRegime = HTF3 ] }
    \cup { [ PlainTrendOptions(FALSE) EXCEPT !.higherTFRegime = HTF4 ] }
    \cup { [ PlainTrendOptions(FALSE) EXCEPT !.rsiPeriod = 200 + 1 ] }
    \cup { [ PlainTrendOptions(f) EXCEPT !.useV2Signal = TRUE ] : f \in BOOLEAN }
    \cup { [ PlainTrendOptions(f) EXCEPT !.useV3Signal = TRUE ] : f \in BOOLEAN }
    \cup { [ PlainTrendOptions(FALSE) EXCEPT !.useV2Signal = TRUE,
                                            !.useV3Signal = TRUE ] }
    \cup { [ PlainTrendOptions(FALSE) EXCEPT !.stopLossPct = 8 ] }

TrendOptions ==
    ExtraTrendOptions \cup
    [ useTrendFilter : BOOLEAN,
      useV2Signal : { FALSE },
      useV3Signal : { FALSE },
      stopLossPct : { 20, 38, 50 },
      takeProfitPct : { 40 },
      minAtrPct : { 5 },
      maxRsiForEntry : { 70 },
      minRsiForEntry : { 30 },
      rsiPeriod : { 14 },
      maxPremiumOverEma50 : { 50 },
      higherTFRegime : { NoHTF, HTF1 },
      allowedHigherTFRegimes : { << "BULL" >> } ]

\* Mean-reversion inputs: a flat history at 100 ranging three dollars either
\* side, then tail bars as <<close, high, low>>
BarD == << Dollar(84), Dollar(100), Cents(8350) >>
BarR == << Dollar(96), Cents(9650), Dollar(82) >>
BarS == << Dollar(82), Cents(8450), Cents(8180) >>
MRTailBars == { BarD, BarR, BarS }

MaxTailMR == 3

MRTails == UNION { [1..n -> MRTailBars] : n \in 0..MaxTailMR }

MRPrefix(n) ==
    [k \in 1..n |-> Candle(k - 1, Dollar(100), Dollar(103), Dollar(97))]

MRShortLengths == { 0, 99 }

MRInputs == { MRPrefix(n) : n \in MRShortLengths }
              \cup { WithTail(MRPrefix(100), t) : t \in MRTails }

\* bandKEnter and bandKExit are in tenths (2.0 is 20)
BandScale == 5 * 2

\* An exit band that is not inside the entry band
ExtraMROptions ==
    { [ stopLossPct |-> 15, takeProfitPct |-> 30, bandKEnter |-> 20,
        bandKExit |-> 25, minAtrPct |-> 5 ] }

MROptions ==
    ExtraMROptions \cup
    { [ stopLossPct |-> sl, takeProfitPct |-> x[1], bandKEnter |-> 20,
        bandKExit |-> 5, minAtrPct |-> x[2] ] :
      sl \in { 15, 30 }, x \in { << 30, 5 >>, << 200, 5 >>, << 30, 78 >> } }

Closes(cs) == [k \in 1..Len(cs) |-> cs[k].close]

InSeq(x, s) == \E k \in 1..Len(s) : s[k] = x

(***************************************************************************)
(* Trade accounting                                                        *)
(***************************************************************************)
feeRate == 4      \* 0.0004, in units of 1/10000

\* feeRate * 2 * 100, in percent units
feePct == (feeRate * 2 * 100 * PctScale) \div 10000

\* ((exitPrice - entryPrice) / entryPrice) * 100
grossPnlPct(entry, exit) == ((exit - entry) * 100 * PctScale) \div entry

\* variant: no fee is charged
pnlPctWithoutFee(entry, exit) == grossPnlPct(entry, exit)

pnlPct(entry, exit) == grossPnlPct(entry, exit) - feePct

stopPrice(entry, stopLoss)   == (entry * (FracScale - stopLoss)) \div FracScale
tpPrice(entry, takeProfit)   == (entry * (FracScale + takeProfit)) \div FracScale

Trade(eTime, xTime, ePrice, xPrice, reason) ==
    [entryTime |-> eTime, exitTime |-> xTime, entryPrice |-> ePrice,
     exitPrice |-> xPrice, pnlPct |-> pnlPct(ePrice, xPrice),
     exitReason |-> reason]

(***************************************************************************)
(* Statistics of a finished run                                            *)
(***************************************************************************)
RECURSIVE SumPnl(_)
SumPnl(ts) == IF ts = << >> THEN 0 ELSE ts[1].pnlPct + SumPnl(Tail(ts))

RECURSIVE CountWins(_)
CountWins(ts) ==
    IF ts = << >> THEN 0
    ELSE (IF ts[1].pnlPct > 0 THEN 1 ELSE 0) + CountWins(Tail(ts))

\* variant: compounds the return before fees
equityAfterGross(equity, tradePnl) ==
    (equity * (100 * PctScale + tradePnl + feePct)) \div (100 * PctScale)

\* equity *= 1 + t.pnlPct / 100
equityAfter(equity, tradePnl) ==
    (equity * (100 * PctScale + tradePnl)) \div (100 * PctScale)

\* variant: the peak stays at the starting equity
peakStale(eq, peakEquity) == peakEquity

\* if (equity > peakEquity) peakEquity = equity
peakAfter(eq, peakEquity) == IF eq > peakEquity THEN eq ELSE peakEquity

\* dd = (peakEquity - equity) / peakEquity, kept in percent
drawdownPct(peak, eq) == ((peak - eq) * 100 * PctScale) \div peak

\* for (const t of trades) { equity *= 1 + t.pnlPct / 100; ... }
RECURSIVE equityLoop(_, _, _, _, _, _)
equityLoop(ts, k, equity, peakEquity, maxDrawdownPct, equityCurve) ==
    IF k > Len(ts) THEN [equity |-> equity, peakEquity |-> peakEquity,
                         maxDrawdownPct |-> maxDrawdownPct,
                         equityCurve |-> equityCurve]
    ELSE LET t    == ts[k]
             eq   == equityAfter(equity, t.pnlPct)
             peak == peakAfter(eq, peakEquity)
             dd   == drawdownPct(peak, eq)
         IN  equityLoop(ts, k + 1, eq, peak,
                        IF dd > maxDrawdownPct THEN dd ELSE maxDrawdownPct,
                        Append(equityCurve, [time |-> t.exitTime, equity |-> eq]))

\* variant: the power is taken whenever there is a trade
annualizedAnySpan(ts, equity) ==
    LET msDiff == Last(ts).exitTime - ts[1].entryTime
    IN  IF Len(ts) > 0
        THEN [pow |-> TRUE, finalEquity |-> equity, msDiff |-> msDiff]
        ELSE [pow |-> FALSE, finalEquity |-> 0, msDiff |-> 0]

\* annualizedReturnPct = (Math.pow(finalEquity, 1 / years) - 1) * 100 is kept
\* by its operands; pow = FALSE is the value 0 the variable starts with.
annualized(ts, equity) ==
    LET msDiff == Last(ts).exitTime - ts[1].entryTime
    IN  IF Len(ts) > 0 /\ msDiff > 0
        THEN [pow |-> TRUE, finalEquity |-> equity, msDiff |-> msDiff]
        ELSE [pow |-> FALSE, finalEquity |-> 0, msDiff |-> 0]

TrendResult(ts) ==
    LET totalTrades == Len(ts)
        total == SumPnl(ts)
        eq    == equityLoop(ts, 1, EquityScale, EquityScale, 0, << >>)
    IN  [ totalTrades |-> totalTrades,
          totalReturnPct |-> total,
          avgReturnPct |-> IF totalTrades > 0 THEN total \div totalTrades ELSE 0,
          winRate |-> IF totalTrades > 0
                      THEN (CountWins(ts) * 100 * PctScale) \div totalTrades ELSE 0,
          equityCurve |-> eq.equityCurve,
          equity |-> eq.equity,
          maxDrawdownPct |-> eq.maxDrawdownPct,
          annualizedReturnPct |->
              IF totalTrades > 0 THEN annualized(ts, eq.equity)
              ELSE [pow |-> FALSE, finalEquity |-> 0, msDiff |-> 0] ]

NoResult == [ totalTrades |-> 0 ]

(***************************************************************************)
(* backtestSimpleBtcTrend (regime-aware version)                           *)
(***************************************************************************)
\* variant: the loop starts fifty bars early
WarmUpEarly == 200 - 50

\* variant: one candle more is demanded
MinCandlesPlusOne == 200 + 1

MinCandles == 200
WarmUp     == 200
Ema50Period  == 50
Ema200Period == 200
AtrPeriod    == 14

htTimes   == options.higherTFRegime.times
htRegimes == options.higherTFRegime.regimes

\* variant: the pointer moves one entry at most on a bar
htAdvanceOnce(times, idx, closeTime) ==
    IF idx + 1 < Len(times) /\ At(times, idx + 1) <= closeTime
    THEN idx + 1
    ELSE idx

\* while (htIndex + 1 < htTimes.length && htTimes[htIndex + 1] <= closeTime) htIndex++
RECURSIVE htAdvance(_, _, _)
htAdvance(times, idx, closeTime) ==
    IF idx + 1 < Len(times) /\ At(times, idx + 1) <= closeTime
    THEN htAdvance(times, idx + 1, closeTime)
    ELSE idx

htLookup(closeTime) ==
    IF Len(htTimes) > 0 THEN htAdvance(htTimes, htIndex, closeTime) ELSE htIndex

\* variant: the higher-timeframe regime is not consulted
higherRegimeIgnored(closeTime) == TRUE

higherRegimeOk(closeTime) ==
    IF Len(htTimes) > 0
    THEN LET idx == htLookup(closeTime)
         IN  IF idx < Len(htRegimes) /\ Len(options.allowedHigherTFRegimes) > 0
             THEN InSeq(At(htRegimes, idx), options.allowedHigherTFRegimes)
             ELSE TRUE
    ELSE TRUE

\* The values the loop body reads at bar i
price      == At(candles, i).close
prevPrice  == At(candles, i - 1).close
high       == At(candles, i).high
low        == At(candles, i).low
closeTime  == At(candles, i).closeTime
e50        == At(ema50, i)
prevE50    == At(ema50, i - 1)
e200       == At(ema200, i)
ema200Prev == At(ema200, i - 1)
atrValue   == At(atr14, i)
r          == At(rsiSeries, i)

\* if (atrValue === undefined || r === undefined || Number.isNaN(r)) continue
notReady == IsNaN(r)

\* atrPct > minAtrPct, atrPct = atrValue / price
enoughVol == ~IsNaN(atrValue) /\ atrValue * FracScale > options.minAtrPct * price

regime == detectRegimeFromEma(price, e50, e200, ema200Prev)

trendOk ==
    IF options.useTrendFilter
    THEN regime = "BULL" /\ enoughVol /\ higherRegimeOk(closeTime)
    ELSE higherRegimeOk(closeTime)

rsiOk == r <= options.maxRsiForEntry * PctScale /\ r >= options.minRsiForEntry * PctScale

\* premiumOverEma50 = e50 > 0 ? (price - e50) / e50 : Infinity
notTooHigh == e50 > 0 /\ (price - e50) * FracScale <= options.maxPremiumOverEma50 * e50

\* useV3Signal ? detectSignalV3(...) : useV2Signal ? detectSignalV2(...)
\*             : detectSignal(...)
signal ==
    IF options.useV3Signal
    THEN detectSignalV3(candles, i, ema50, ema200, inPosition)
    ELSE IF options.useV2Signal
    THEN detectSignalV2(candles, i, ema50, ema200, inPosition)
    ELSE detectSignal(price, prevPrice, e50, prevE50, inPosition)

slHit == low <= stopPrice(entryPrice, options.stopLossPct)
tpHit == high >= tpPrice(entryPrice, options.takeProfitPct)

\* variant: the detector's CLOSE_LONG also sets shouldExit
shouldExitOnSignal == slHit \/ tpHit \/ signal = "CLOSE_LONG"

\* let shouldExit = false; set by the stop-loss and the take-profit test only
shouldExit == slHit \/ tpHit

\* variant: the take-profit test comes first
TrendExitTpFirst ==
    IF tpHit
    THEN Trade(entryTime, closeTime, entryPrice,
               tpPrice(entryPrice, options.takeProfitPct), "TP")
    ELSE IF slHit
    THEN Trade(entryTime, closeTime, entryPrice,
               stopPrice(entryPrice, options.stopLossPct), "SL")
    ELSE Trade(entryTime, closeTime, entryPrice, price, "EMA")

\* variant: a stop-loss exit fills at the bar's low
TrendExitAtLow ==
    IF slHit
    THEN Trade(entryTime, closeTime, entryPrice, low, "SL")
    ELSE IF tpHit
    THEN Trade(entryTime, closeTime, entryPrice,
               tpPrice(entryPrice, options.takeProfitPct), "TP")
    ELSE Trade(entryTime, closeTime, entryPrice, price, "EMA")

\* The trade the in-position branch pushes when shouldExit: exitPrice and
\* exitReason start as price and "EMA" and are overwritten by the test that hits
TrendExit ==
    IF slHit
    THEN Trade(entryTime, closeTime, entryPrice,
               stopPrice(entryPrice, options.stopLossPct), "SL")
    ELSE IF tpHit
    THEN Trade(entryTime, closeTime, entryPrice,
               tpPrice(entryPrice, options.takeProfitPct), "TP")
    ELSE Trade(entryTime, closeTime, entryPrice, price, "EMA")

InitTrend ==
    /\ idleInd
    /\ optInput = [ variant |-> "none" ] /\ comboIndex = 0
    /\ allResults = << >> /\ runs = << >>
    /\ best = [ jointScore |-> 0 ] /\ strategyJson = [ written |-> FALSE ]
    /\ candles4h = << >> /\ candles1dLength = 0
    /\ cursor = 0 /\ windowIndex = 0 /\ windowResults = << >>
    /\ engine = "trend"
    /\ candles \in TrendInputs
    /\ options \in TrendOptions
    /\ pc = "start"
    /\ i = 0
    /\ ema50 = << >> /\ ema200 = << >> /\ ema20 = << >>
    /\ atr14 = << >> /\ rsiSeries = << >>
    /\ htIndex = 0
    /\ inPosition = FALSE /\ entryPrice = 0 /\ entryTime = 0
    /\ trades = << >>
    /\ entries = 0
    /\ result = NoResult

\* candles.length < 200: return null
RejectTrend ==
    /\ UNCHANGED <<optVars, indVars>>
    /\ UNCHANGED wfVars
    /\ pc = "start" /\ engine = "trend"
    /\ Len(candles) < MinCandles
    /\ pc' = "null"
    /\ UNCHANGED <<engine, candles, options, i, ema50, ema200, ema20, atr14,
                   rsiSeries, htIndex, inPosition, entryPrice, entryTime,
                   trades, entries, result>>

StartTrend ==
    /\ UNCHANGED <<optVars, indVars>>
    /\ UNCHANGED wfVars
    /\ pc = "start" /\ engine = "trend"
    /\ Len(candles) >= MinCandles
    /\ ema50' = ema(Closes(candles), Ema50Period)
    /\ ema200' = ema(Closes(candles), Ema200Period)
    /\ atr14' = atr(candles, AtrPeriod)
    /\ rsiSeries' = rsi(Closes(candles), options.rsiPeriod)
    /\ i' = WarmUp
    /\ pc' = "loop"
    /\ UNCHANGED <<engine, candles, options, ema20, htIndex, inPosition,
                   entryPrice, entryTime, trades, entries, result>>

\* variant: the position flag is not cleared
ExitLongKeepsPosition ==
    /\ trades' = Append(trades, TrendExit)
    /\ UNCHANGED <<inPosition, entryPrice, entryTime, entries>>

\* if (shouldExit) { trades.push({...}); inPosition = false; }
ExitLong ==
    /\ trades' = Append(trades, TrendExit)
    /\ inPosition' = FALSE
    /\ UNCHANGED <<entryPrice, entryTime, entries>>

\* variant: a bar whose indicators are not ready is taken as an entry bar
skipBarEnters ==
    /\ inPosition' = TRUE
    /\ entryPrice' = price
    /\ entryTime' = closeTime
    /\ entries' = entries + 1
    /\ UNCHANGED <<htIndex, trades>>

\* continue: nothing of the run's state is touched
skipBar == UNCHANGED <<htIndex, inPosition, entryPrice, entryTime, trades, entries>>

\* variant: the stop-loss test also runs on the bar that opens the position
enterLongThenExit ==
    /\ entryPrice' = price
    /\ entryTime' = closeTime
    /\ entries' = entries + 1
    /\ IF low <= stopPrice(price, options.stopLossPct)
       THEN /\ trades' = Append(trades,
                              Trade(closeTime, closeTime, price,
                                    stopPrice(price, options.stopLossPct), "SL"))
            /\ inPosition' = FALSE
       ELSE /\ inPosition' = TRUE
            /\ UNCHANGED trades

\* inPosition = true; entryPrice = price; entryTime = currentCandle.closeTime
enterLong ==
    /\ inPosition' = TRUE
    /\ entryPrice' = price
    /\ entryTime' = closeTime
    /\ entries' = entries + 1
    /\ UNCHANGED trades

\* One iteration of for (let i = 200; i < candles.length; i++)
LoopTrend ==
    /\ UNCHANGED <<optVars, indVars>>
    /\ UNCHANGED wfVars
    /\ pc = "loop" /\ engine = "trend"
    /\ i < Len(candles)
    /\ i' = i + 1
    /\ IF notReady
       THEN skipBar
       ELSE /\ htIndex' = htLookup(closeTime)
            /\ IF ~trendOk
               THEN UNCHANGED <<inPosition, entryPrice, entryTime, trades, entries>>
               ELSE IF ~inPosition
               THEN IF signal = "LONG" /\ trendOk /\ rsiOk /\ notTooHigh
                    THEN enterLong
                    ELSE UNCHANGED <<inPosition, entryPrice, entryTime, trades, entries>>
               ELSE IF shouldExit
                    THEN ExitLong
                    ELSE UNCHANGED <<inPosition, entryPrice, entryTime, trades, entries>>
    /\ UNCHANGED <<engine, candles, options, pc, ema50, ema200, ema20, atr14,
                   rsiSeries, result>>

\* variant: the open position is dropped at the end of the data
forcedCloseDropped == trades

\* if (inPosition) { ... trades.push({..., exitReason: "EMA"}) }
forcedClose ==
    IF inPosition
    THEN LET last == Last(candles)
         IN  Append(trades,
                    [entryTime |-> entryTime, exitTime |-> last.closeTime,
                     entryPrice |-> entryPrice, exitPrice |-> last.close,
                     pnlPct |-> grossPnlPct(entryPrice, last.close) - feePct,
                     exitReason |-> "EMA"])
    ELSE trades

FinishTrend ==
    /\ UNCHANGED <<optVars, indVars>>
    /\ UNCHANGED wfVars
    /\ pc = "loop" /\ engine = "trend"
    /\ i >= Len(candles)
    /\ trades' = forcedClose
    /\ result' = TrendResult(forcedClose)
    /\ pc' = "done"
    /\ UNCHANGED <<engine, candles, options, i, ema50, ema200, ema20, atr14,
                   rsiSeries, htIndex, inPosition, entryPrice, entryTime, entries>>

(***************************************************************************)
(* detectMeanRevertSignal and backtestBtcMeanRevert                        *)
(***************************************************************************)
detectMeanRevertSignal(cs, idx, emaSeries, atrSeries, inPos, params) ==
    IF idx >= Len(cs) THEN "HOLD"
    ELSE LET p == At(cs, idx).close
             emaV == At(emaSeries, idx)
             atrV == At(atrSeries, idx)
         IN  IF IsNaN(atrV) THEN "HOLD"
             ELSE \* lowerEnter = ema - bandKEnter * atr, lowerExit = ema - bandKExit * atr
                  LET lowerEnter == emaV * BandScale - params.bandKEnter * atrV
                      lowerExit  == emaV * BandScale - params.bandKExit * atrV
                  IN  IF ~inPos
                      THEN IF p * BandScale < lowerEnter THEN "LONG" ELSE "HOLD"
                      ELSE IF p * BandScale >= lowerExit THEN "CLOSE_LONG" ELSE "HOLD"

MinCandlesMR == 100
WarmUpMR     == 50
Ema20Period  == 20

atrVal == At(atr14, i)

\* !Number.isFinite(emaVal) || !Number.isFinite(atrVal): the ema is always a number
mrNotReady == IsNaN(atrVal)

\* if (atrPct < minAtrPct) continue
mrTooQuiet == atrVal * FracScale < options.minAtrPct * price

mrSignal ==
    detectMeanRevertSignal(candles, i, ema20, atr14, inPosition,
                           [bandKEnter |-> options.bandKEnter,
                            bandKExit |-> options.bandKExit])

\* shouldExit of the mean-reversion loop: stop-loss, take-profit, CLOSE_LONG
mrShouldExit == slHit \/ tpHit \/ mrSignal = "CLOSE_LONG"

\* The trade the in-position branch pushes when it exits
MRExit ==
    IF slHit
    THEN Trade(entryTime, closeTime, entryPrice,
               stopPrice(entryPrice, options.stopLossPct), "SL")
    ELSE IF tpHit
    THEN Trade(entryTime, closeTime, entryPrice,
               tpPrice(entryPrice, options.takeProfitPct), "TP")
    ELSE Trade(entryTime, closeTime, entryPrice, price, "EMA")

MRResult(ts) ==
    LET totalTrades == Len(ts)
        total == SumPnl(ts)
    IN  [ totalTrades |-> totalTrades,
          totalReturnPct |-> total,
          avgReturnPct |-> IF totalTrades > 0 THEN total \div totalTrades ELSE 0,
          winRate |-> IF totalTrades > 0
                      THEN (CountWins(ts) * 100 * PctScale) \div totalTrades ELSE 0 ]

InitMR ==
    /\ idleInd
    /\ optInput = [ variant |-> "none" ] /\ comboIndex = 0
    /\ allResults = << >> /\ runs = << >>
    /\ best = [ jointScore |-> 0 ] /\ strategyJson = [ written |-> FALSE ]
    /\ candles4h = << >> /\ candles1dLength = 0
    /\ cursor = 0 /\ windowIndex = 0 /\ windowResults = << >>
    /\ engine = "meanRevert"
    /\ candles \in MRInputs
    /\ options \in MROptions
    /\ pc = "start"
    /\ i = 0
    /\ ema50 = << >> /\ ema200 = << >> /\ ema20 = << >>
    /\ atr14 = << >> /\ rsiSeries = << >>
    /\ htIndex = 0
    /\ inPosition = FALSE /\ entryPrice = 0 /\ entryTime = 0
    /\ trades = << >>
    /\ entries = 0
    /\ result = NoResult

\* candles.length < 100: return null
RejectMR ==
    /\ UNCHANGED <<optVars, indVars>>
    /\ UNCHANGED wfVars
    /\ pc = "start" /\ engine = "meanRevert"
    /\ Len(candles) < MinCandlesMR
    /\ pc' = "null"
    /\ UNCHANGED <<engine, candles, options, i, ema50, ema200, ema20, atr14,
                   rsiSeries, htIndex, inPosition, entryPrice, entryTime,
                   trades, entries, result>>

StartMR ==
    /\ UNCHANGED <<optVars, indVars>>
    /\ UNCHANGED wfVars
    /\ pc = "start" /\ engine = "meanRevert"
    /\ Len(candles) >= MinCandlesMR
    /\ ema20' = ema(Closes(candles), Ema20Period)
    /\ atr14' = atr(candles, AtrPeriod)
    /\ i' = WarmUpMR
    /\ pc' = "loop"
    /\ UNCHANGED <<engine, candles, options, ema50, ema200, rsiSeries, htIndex,
                   inPosition, entryPrice, entryTime, trades, entries, result>>

\* One iteration of for (let i = 50; i < candles.length; i++)
LoopMR ==
    /\ UNCHANGED <<optVars, indVars>>
    /\ UNCHANGED wfVars
    /\ pc = "loop" /\ engine = "meanRevert"
    /\ i < Len(candles)
    /\ i' = i + 1
    /\ IF mrNotReady \/ mrTooQuiet
       THEN UNCHANGED <<inPosition, entryPrice, entryTime, trades, entries>>
       ELSE IF ~inPosition
       THEN IF mrSignal = "LONG"
            THEN /\ inPosition' = TRUE
                 /\ entryPrice' = price
                 /\ entryTime' = closeTime
                 /\ entries' = entries + 1
                 /\ UNCHANGED trades
            ELSE UNCHANGED <<inPosition, entryPrice, entryTime, trades, entries>>
       ELSE IF mrShouldExit
            THEN /\ trades' = Append(trades, MRExit)
                 /\ inPosition' = FALSE
                 /\ UNCHANGED <<entryPrice, entryTime, entries>>
            ELSE UNCHANGED <<inPosition, entryPrice, entryTime, trades, entries>>
    /\ UNCHANGED <<engine, candles, options, pc, ema50, ema200, ema20, atr14,
                   rsiSeries, htIndex, result>>

FinishMR ==
    /\ UNCHANGED <<optVars, indVars>>
    /\ UNCHANGED wfVars
    /\ pc = "loop" /\ engine = "meanRevert"
    /\ i >= Len(candles)
    /\ trades' = forcedClose
    /\ result' = MRResult(forcedClose)
    /\ pc' = "done"
    /\ UNCHANGED <<engine, candles, options, i, ema50, ema200, ema20, atr14,
                   rsiSeries, htIndex, inPosition, entryPrice, entryTime, entries>>

Next == \/ RejectTrend \/ StartTrend \/ LoopTrend \/ FinishTrend
        \/ RejectMR \/ StartMR \/ LoopMR \/ FinishMR

Init == InitTrend \/ InitMR

Spec == Init /\ [][Next]_vars

(***************************************************************************)
(* Walk-forward harness: main of backtest-walkforward.ts and                *)
(* runWalkForwardForConfig of filters/breakout.ts run the same loop.        *)
(* Times are in hours; a 4h bar opened at t has closeTime t + 3, the last   *)
(* unit before the next bar opens (the source's t + 4h - 1ms).              *)
(***************************************************************************)
TRAIN_DAYS == 365
TEST_DAYS  == 90
dayMs      == 24

trainMs == TRAIN_DAYS * dayMs
testMs  == TEST_DAYS * dayMs

MinHistory4h == 500
MinHistory1d == 200
MinTrain4h   == 200
MinTest4h    == 50
RegimeMinCandles == 200

\* candles.filter((c) => c.openTime >= startMs && c.closeTime <= endMs)
\* variant: a candle belongs to the range its open time falls in
InWindowByOpen(c, startMs, endMs) == c.openTime >= startMs /\ c.openTime <= endMs

InWindow(c, startMs, endMs) == c.openTime >= startMs /\ c.closeTime <= endMs

sliceByTime(cs, startMs, endMs) ==
    LET keep(c) == InWindow(c, startMs, endMs)
    IN  SelectSeq(cs, keep)

\* runBacktestWithConfig(...)?.result is missing: the wrapper returns null
\* on short 4h or daily history, the engine returns null on short 4h history
backtestFails(slice4h) ==
    \/ Len(slice4h) < RegimeMinCandles
    \/ candles1dLength < RegimeMinCandles
    \/ Len(slice4h) < MinCandles

\* Histories: BarsPerDay bars a day from hour 0, some with a stretch of
\* missing bars
BarsPerDay == 2 * 3

MaxWindows == 4

HistoryDays ==
    { 83 } \cup { TRAIN_DAYS + k * TEST_DAYS + e : k \in 0..MaxWindows, e \in { 0, 1 } }

Gaps == { << 0, 0 >>, << 470, 65 >>, << 458, 85 >>, << 100, 340 >> }

History(days, gap) ==
    LET full == [k \in 1..(days * BarsPerDay) |->
                    Candle(k - 1, Dollar(100), Dollar(101), Dollar(99))]
        present(c) == ~( /\ c.openTime >= gap[1] * dayMs
                         /\ c.openTime < (gap[1] + gap[2]) * dayMs )
    IN  SelectSeq(full, present)

Histories == { History(d, g) : d \in HistoryDays, g \in Gaps }

firstTime == candles4h[1].openTime
lastTime  == Last(candles4h).closeTime

trainStart == cursor
trainEnd   == trainStart + trainMs
testStart  == trainEnd
testEnd    == testStart + testMs

train4h == sliceByTime(candles4h, trainStart, trainEnd)
test4h  == sliceByTime(candles4h, testStart, testEnd)

\* variant: the cursor slides by one day
advanceOneDay(c) == c + dayMs

\* variant: the cursor stays where it is
advanceNot(c) == c

\* cursor += testMs
advance(c) == c + testMs

idleEngine ==
    /\ candles = << >> /\ options = [ stopLossPct |-> 0 ]
    /\ i = 0
    /\ ema50 = << >> /\ ema200 = << >> /\ ema20 = << >>
    /\ atr14 = << >> /\ rsiSeries = << >>
    /\ htIndex = 0
    /\ inPosition = FALSE /\ entryPrice = 0 /\ entryTime = 0
    /\ trades = << >>
    /\ entries = 0
    /\ result = NoResult

engineVars == <<engine, candles, options, i, ema50, ema200, ema20, atr14,
                rsiSeries, htIndex, inPosition, entryPrice, entryTime,
                trades, entries, result>>

InitWF ==
    /\ idleInd
    /\ optInput = [ variant |-> "none" ] /\ comboIndex = 0
    /\ allResults = << >> /\ runs = << >>
    /\ best = [ jointScore |-> 0 ] /\ strategyJson = [ written |-> FALSE ]
    /\ engine = "walkForward"
    /\ pc = "start"
    /\ candles4h \in Histories
    /\ candles1dLength \in { 199, 200 }
    /\ cursor = 0 /\ windowIndex = 0 /\ windowResults = << >>
    /\ idleEngine

\* if (candles4h.length < 500 || candles1d.length < 200) return
ReturnWF ==
    /\ UNCHANGED <<optVars, indVars>>
    /\ pc = "start" /\ engine = "walkForward"
    /\ Len(candles4h) < MinHistory4h \/ candles1dLength < MinHistory1d
    /\ pc' = "return"
    /\ UNCHANGED <<engineVars, wfVars>>

\* let windowIndex = 0; let cursor = firstTime
BeginWF ==
    /\ UNCHANGED <<optVars, indVars>>
    /\ pc = "start" /\ engine = "walkForward"
    /\ ~(Len(candles4h) < MinHistory4h \/ candles1dLength < MinHistory1d)
    /\ cursor' = firstTime
    /\ windowIndex' = 0
    /\ pc' = "wfLoop"
    /\ UNCHANGED <<engineVars, candles4h, candles1dLength, windowResults>>

\* if (testEnd > lastTime) break
BreakWF ==
    /\ UNCHANGED <<optVars, indVars>>
    /\ pc = "wfLoop"
    /\ testEnd > lastTime
    /\ pc' = "wfDone"
    /\ UNCHANGED <<engineVars, wfVars>>

\* if (train4h.length < 200 || test4h.length < 50) { cursor += testMs; continue; }
SkipShortWF ==
    /\ UNCHANGED <<optVars, indVars>>
    /\ pc = "wfLoop"
    /\ ~(testEnd > lastTime)
    /\ Len(train4h) < MinTrain4h \/ Len(test4h) < MinTest4h
    /\ cursor' = advance(cursor)
    /\ UNCHANGED <<engineVars, pc, candles4h, candles1dLength, windowIndex,
                   windowResults>>

\* windowIndex += 1; if (!trainBacktest?.result || !testBacktest?.result)
\* { cursor += testMs; continue; }
SkipFailedWF ==
    /\ UNCHANGED <<optVars, indVars>>
    /\ pc = "wfLoop"
    /\ ~(testEnd > lastTime)
    /\ ~(Len(train4h) < MinTrain4h \/ Len(test4h) < MinTest4h)
    /\ backtestFails(train4h) \/ backtestFails(test4h)
    /\ windowIndex' = windowIndex + 1
    /\ cursor' = advance(cursor)
    /\ UNCHANGED <<engineVars, pc, candles4h, candles1dLength, windowResults>>

\* windowResults.push({index, trainStart, trainEnd, testStart, testEnd, ...});
\* cursor += testMs.  The statistics of the two runs are kept as the sizes
\* of the slices they ran on.
RecordWF ==
    /\ UNCHANGED <<optVars, indVars>>
    /\ pc = "wfLoop"
    /\ ~(testEnd > lastTime)
    /\ ~(Len(train4h) < MinTrain4h \/ Len(test4h) < MinTest4h)
    /\ ~(backtestFails(train4h) \/ backtestFails(test4h))
    /\ windowIndex' = windowIndex + 1
    /\ windowResults' = Append(windowResults,
           [ index |-> windowIndex + 1,
             trainStart |-> trainStart, trainEnd |-> trainEnd,
             testStart |-> testStart, testEnd |-> testEnd,
             trainBars |-> Len(train4h), testBars |-> Len(test4h) ])
    /\ cursor' = advance(cursor)
    /\ UNCHANGED <<engineVars, pc, candles4h, candles1dLength>>

NextWF == \/ ReturnWF \/ BeginWF \/ BreakWF \/ SkipShortWF \/ SkipFailedWF
          \/ RecordWF

SpecWF == InitWF /\ [][NextWF]_vars

\* The loop is a sequential program: it keeps taking steps while it can
FairSpecWF == SpecWF /\ WF_vars(NextWF)

(***************************************************************************)
(* Optimizer: main of index-optimizer.ts, in its two versions (plain, and   *)
(* with the daily-regime filter).  The two backtests of a grid point are    *)
(* inputs of the loop: each is null or a result with its trade count,       *)
(* totalReturnPct and maxDrawdownPct.  Parameters are in 1/10000.           *)
(***************************************************************************)
SIGNAL_VERSIONS == << FALSE, TRUE >>
ATR_LIST == << 30, 50, 75, 100, 150 >>
SL_LIST  == << 80, 100, 120, 150, 180, 200 >>
TP_LIST  == << 250, 300, 350, 400, 450, 500 >>

\* The grid points in the order the four nested loops visit them
FullGrid ==
    [ n \in 1..(Len(SIGNAL_VERSIONS) * Len(ATR_LIST) * Len(SL_LIST) * Len(TP_LIST)) |->
        LET m  == n - 1
            tp == m % Len(TP_LIST)
            sl == (m \div Len(TP_LIST)) % Len(SL_LIST)
            at == (m \div (Len(TP_LIST) * Len(SL_LIST))) % Len(ATR_LIST)
            v  == m \div (Len(TP_LIST) * Len(SL_LIST) * Len(ATR_LIST))
        IN  [ useV2Signal |-> At(SIGNAL_VERSIONS, v),
              stopLossPct |-> At(SL_LIST, sl),
              takeProfitPct |-> At(TP_LIST, tp),
              minAtrPct |-> At(ATR_LIST, at) ] ]

MaxGrid == 3

Grids == { SubSeq(FullGrid, 1, n) : n \in 1..MaxGrid }

MIN_TRAIN_TRADES ==
    IF optInput.variant = "dailyRegime" THEN 3 ELSE 15

MIN_TEST_TRADES ==
    IF optInput.variant = "dailyRegime" THEN 2 ELSE 6

MinOptimizerCandles == 600

NullResult == [ isNull |-> TRUE ]

Outcome(n, ret, dd) ==
    [ isNull |-> FALSE, totalTrades |-> n, totalReturnPct |-> ret,
      maxDrawdownPct |-> dd ]

Outcomes ==
    { NullResult, Outcome(0, 0, 0), Outcome(2, 300, 100), Outcome(6, -200, 600),
      Outcome(15, 1200, 400), Outcome(20, 500, 0) }

\* score = totalReturnPct - ALPHA * maxDrawdownPct with ALPHA = 0.5, doubled
score2(res) == 2 * res.totalReturnPct - res.maxDrawdownPct

\* TRAIN_WEIGHT * trainScore + TEST_WEIGHT * testScore with weights 0.4 and
\* 0.6, in units of 1/20 of a score unit
TRAIN_WEIGHT == 4
TEST_WEIGHT  == 6

jointScoreOf(train, test) == TRAIN_WEIGHT * score2(train) + TEST_WEIGHT * score2(test)

\* variant: the list is left in scan order
sortByScoreSkipped(rs) == rs

\* allResults.sort((a, b) => b.jointScore - a.jointScore): a stable sort
RECURSIVE insertByScore(_, _)
insertByScore(sorted, x) ==
    IF sorted = << >> THEN << x >>
    ELSE IF Head(sorted).jointScore >= x.jointScore
         THEN << Head(sorted) >> \o insertByScore(Tail(sorted), x)
         ELSE << x >> \o sorted

RECURSIVE sortByScore(_)
sortByScore(rs) ==
    IF rs = << >> THEN << >>
    ELSE insertByScore(sortByScore(SubSeq(rs, 1, Len(rs) - 1)), rs[Len(rs)])

params == optInput.grid[comboIndex]

\* variant: only a missing train result is turned away
trainRejectedNullOnly(train) == train.isNull

\* if (!train) continue; if (train.totalTrades < MIN_TRAIN_TRADES) continue
trainRejected(train) ==
    IF train.isNull THEN TRUE ELSE train.totalTrades < MIN_TRAIN_TRADES

\* if (!test) continue; if (test.totalTrades < MIN_TEST_TRADES) continue
testRejected(test) ==
    IF test.isNull THEN TRUE ELSE test.totalTrades < MIN_TEST_TRADES

\* variant: the empty list is not caught
noResultsUnchecked == FALSE

\* if (allResults.length === 0) return
noResults == Len(allResults) = 0

InitOpt ==
    /\ idleInd
    /\ engine = "optimizer"
    /\ pc = "start"
    /\ optInput \in [ variant : { "plain", "dailyRegime" },
                      autoUpdate : BOOLEAN,
                      candlesLength : { 599, 600 },
                      grid : Grids ]
    /\ comboIndex = 0
    /\ allResults = << >> /\ runs = << >>
    /\ best = [ jointScore |-> 0 ] /\ strategyJson = [ written |-> FALSE ]
    /\ candles4h = << >> /\ candles1dLength = 0
    /\ cursor = 0 /\ windowIndex = 0 /\ windowResults = << >>
    /\ idleEngine

\* if (candles.length < 600) return
ReturnOpt ==
    /\ pc = "start" /\ engine = "optimizer"
    /\ optInput.candlesLength < MinOptimizerCandles
    /\ pc' = "return"
    /\ UNCHANGED <<engineVars, wfVars, indVars, optVars>>

BeginOpt ==
    /\ pc = "start" /\ engine = "optimizer"
    /\ ~(optInput.candlesLength < MinOptimizerCandles)
    /\ comboIndex' = 1
    /\ pc' = "grid"
    /\ UNCHANGED <<engineVars, wfVars, indVars, optInput, allResults, runs, best,
                   strategyJson>>

\* A grid point whose train run is null or has too few trades: the test
\* run is not executed
SkipTrainOpt ==
    /\ pc = "grid" /\ comboIndex <= Len(optInput.grid)
    /\ \E train \in Outcomes :
          /\ trainRejected(train)
          /\ runs' = Append(runs, [ params |-> params, train |-> train,
                                    testRun |-> FALSE, test |-> NullResult ])
    /\ comboIndex' = comboIndex + 1
    /\ UNCHANGED <<engineVars, wfVars, indVars, pc, optInput, allResults, best,
                   strategyJson>>

\* A grid point whose test run is null or has too few trades
SkipTestOpt ==
    /\ pc = "grid" /\ comboIndex <= Len(optInput.grid)
    /\ \E train \in Outcomes, test \in Outcomes :
          /\ ~trainRejected(train)
          /\ testRejected(test)
          /\ runs' = Append(runs, [ params |-> params, train |-> train,
                                    testRun |-> TRUE, test |-> test ])
    /\ comboIndex' = comboIndex + 1
    /\ UNCHANGED <<engineVars, wfVars, indVars, pc, optInput, allResults, best,
                   strategyJson>>

\* allResults.push({params, train, test, trainScore, testScore, jointScore})
ScoreOpt ==
    /\ pc = "grid" /\ comboIndex <= Len(optInput.grid)
    /\ \E train \in Outcomes, test \in Outcomes :
          /\ ~trainRejected(train)
          /\ ~testRejected(test)
          /\ runs' = Append(runs, [ params |-> params, train |-> train,
                                    testRun |-> TRUE, test |-> test ])
          /\ allResults' = Append(allResults,
                [ params |-> params, train |-> train, test |-> test,
                  trainScore |-> score2(train), testScore |-> score2(test),
                  jointScore |-> jointScoreOf(train, test) ])
    /\ comboIndex' = comboIndex + 1
    /\ UNCHANGED <<engineVars, wfVars, indVars, pc, optInput, best, strategyJson>>

\* The grid is exhausted and the list is empty: the warning is printed and
\* main returns
EmptyOpt ==
    /\ pc = "grid" /\ comboIndex > Len(optInput.grid)
    /\ noResults
    /\ pc' = "done"
    /\ UNCHANGED <<engineVars, wfVars, indVars, optVars>>

\* sort, best = allResults[0]!, print best.params, write strategy.json when
\* AUTO_UPDATE_STRATEGY_JSON.  Reading best.params of a missing first element
\* is a TypeError, which main().catch turns into exit code 1.
RankOpt ==
    /\ pc = "grid" /\ comboIndex > Len(optInput.grid)
    /\ ~noResults
    /\ allResults' = sortByScore(allResults)
    /\ IF allResults = << >>
       THEN /\ pc' = "error"
            /\ UNCHANGED <<best, strategyJson>>
       ELSE /\ best' = sortByScore(allResults)[1]
            /\ strategyJson' =
                  IF optInput.autoUpdate
                  THEN [ written |-> TRUE,
                         useV2Signal |-> best'.params.useV2Signal,
                         stopLossPct |-> best'.params.stopLossPct,
                         takeProfitPct |-> best'.params.takeProfitPct,
                         minAtrPct |-> best'.params.minAtrPct ]
                  ELSE strategyJson
            /\ pc' = "done"
    /\ UNCHANGED <<engineVars, wfVars, indVars, optInput, comboIndex, runs>>

NextOpt == \/ ReturnOpt \/ BeginOpt \/ SkipTrainOpt \/ SkipTestOpt \/ ScoreOpt
           \/ EmptyOpt \/ RankOpt

SpecOpt == InitOpt /\ [][NextOpt]_vars

(***************************************************************************)
(* The loop of backtestSimpleBtcTrend as a function of its arguments: the  *)
(* state a run on the candles cs with the options opts is in once the bars *)
(* before index n have been processed.  ind holds the four indicator       *)
(* series of cs.                                                           *)
(***************************************************************************)
indicators(cs, opts) ==
    [ ema50 |-> ema(Closes(cs), Ema50Period),
      ema200 |-> ema(Closes(cs), Ema200Period),
      atr14 |-> atr(cs, AtrPeriod),
      rsiSeries |-> rsi(Closes(cs), opts.rsiPeriod) ]

\* let htIndex = 0; let inPosition = false; let entryPrice = 0;
\* let entryTime = 0; const trades = []
startState ==
    [ htIndex |-> 0, inPosition |-> FALSE, entryPrice |-> 0, entryTime |-> 0,
      trades |-> << >> ]

\* The loop body at bar idx, from the state st
barStep(cs, opts, ind, idx, st) ==
    LET bar      == At(cs, idx)
        fast     == At(ind.ema50, idx)
        slow     == At(ind.ema200, idx)
        atrNow   == At(ind.atr14, idx)
        rsiNow   == At(ind.rsiSeries, idx)
        times    == opts.higherTFRegime.times
        regimes  == opts.higherTFRegime.regimes
        allowed  == opts.allowedHigherTFRegimes
        ht       == IF Len(times) > 0 THEN htAdvance(times, st.htIndex, bar.closeTime)
                    ELSE st.htIndex
        htOk     == IF Len(times) > 0 /\ ht < Len(regimes) /\ Len(allowed) > 0
                    THEN InSeq(At(regimes, ht), allowed)
                    ELSE TRUE
        vol      == ~IsNaN(atrNow) /\ atrNow * FracScale > opts.minAtrPct * bar.close
        bull     == detectRegimeFromEma(bar.close, fast, slow,
                                        At(ind.ema200, idx - 1)) = "BULL"
        ok       == IF opts.useTrendFilter THEN bull /\ vol /\ htOk ELSE htOk
        rsiIn    == /\ rsiNow <= opts.maxRsiForEntry * PctScale
                    /\ rsiNow >= opts.minRsiForEntry * PctScale
        notHigh  == fast > 0
                    /\ (bar.close - fast) * FracScale <= opts.maxPremiumOverEma50 * fast
        sig      == IF opts.useV3Signal
                    THEN detectSignalV3(cs, idx, ind.ema50, ind.ema200, st.inPosition)
                    ELSE IF opts.useV2Signal
                    THEN detectSignalV2(cs, idx, ind.ema50, ind.ema200, st.inPosition)
                    ELSE detectSignal(bar.close, At(cs, idx - 1).close, fast,
                                      At(ind.ema50, idx - 1), st.inPosition)
        stop     == stopPrice(st.entryPrice, opts.stopLossPct)
        target   == tpPrice(st.entryPrice, opts.takeProfitPct)
        moved    == [ st EXCEPT !.htIndex = ht ]
    IN  IF IsNaN(rsiNow) THEN st
        ELSE IF ~ok THEN moved
        ELSE IF ~st.inPosition
        THEN IF sig = "LONG" /\ rsiIn /\ notHigh
             THEN [ moved EXCEPT !.inPosition = TRUE, !.entryPrice = bar.close,
                                 !.entryTime = bar.closeTime ]
             ELSE moved
        ELSE IF bar.low <= stop
        THEN [ moved EXCEPT !.inPosition = FALSE,
                            !.trades = Append(@, Trade(st.entryTime, bar.closeTime,
                                                       st.entryPrice, stop, "SL")) ]
        ELSE IF bar.high >= target
        THEN [ moved EXCEPT !.inPosition = FALSE,
                            !.trades = Append(@, Trade(st.entryTime, bar.closeTime,
                                                       st.entryPrice, target, "TP")) ]
        ELSE moved

\* for (let i = 200; i < n; i++) { ... }
RECURSIVE stateAfter(_, _, _, _)
stateAfter(cs, opts, ind, n) ==
    IF n <= WarmUp THEN startState
    ELSE LET before == stateAfter(cs, opts, ind, n - 1)
         IN  IF before.htIndex >= 0 THEN barStep(cs, opts, ind, n - 1, before)
             ELSE before

(***************************************************************************)
(* IEEE-754 doubles.  The fixed-point series above round every step down   *)
(* to the scale; where a claim is about the exact value the source's       *)
(* arithmetic yields, the operations are carried out as the machine does:  *)
(* a positive double is [m, e] with value m * 2^e and 2^52 <= m < 2^53,    *)
(* each operation computes the exact result and rounds it to the nearest   *)
(* such number, ties to the even mantissa.  Mantissas and exact results    *)
(* are naturals written in limbs of 14 bits, least significant first,      *)
(* without leading zero limbs.  Only positive normal numbers occur.        *)
(***************************************************************************)
LimbBits == 2 * 7
LimbBase == 2 ^ LimbBits
MantissaBits == 52 + 1

RECURSIVE FromNat(_)
FromNat(n) == IF n = 0 THEN << >> ELSE << n % LimbBase >> \o FromNat(n \div LimbBase)

Limb(a, j) == IF j >= 1 /\ j <= Len(a) THEN a[j] ELSE 0

RECURSIVE Strip(_)
Strip(a) ==
    IF Len(a) = 0 THEN a
    ELSE IF a[Len(a)] = 0 THEN Strip(SubSeq(a, 1, Len(a) - 1))
    ELSE a

\* Carries the column sums cols[j..] into limbs
RECURSIVE CarryFrom(_, _, _)
CarryFrom(cols, j, carry) ==
    IF j > Len(cols) THEN FromNat(carry)
    ELSE LET t == cols[j] + carry
         IN  << t % LimbBase >> \o CarryFrom(cols, j + 1, t \div LimbBase)

AddBig(a, b) ==
    LET n == Max2(Len(a), Len(b))
    IN  Strip(CarryFrom([j \in 1..n |-> Limb(a, j) + Limb(b, j)], 1, 0))

RECURSIVE ColSum(_, _, _, _)
ColSum(a, b, j, k) ==
    IF k > j THEN 0
    ELSE Limb(a, k) * Limb(b, j - k + 1) + ColSum(a, b, j, k + 1)

MulBig(a, b) ==
    Strip(CarryFrom([j \in 1..(Len(a) + Len(b)) |-> ColSum(a, b, j, 1)], 1, 0))

\* a - b for a >= b
RECURSIVE BorrowFrom(_, _, _, _)
BorrowFrom(a, b, j, borrow) ==
    IF j > Len(a) THEN << >>
    ELSE LET t == Limb(a, j) - Limb(b, j) - borrow
         IN  IF t < 0 THEN << t + LimbBase >> \o BorrowFrom(a, b, j + 1, 1)
             ELSE << t >> \o BorrowFrom(a, b, j + 1, 0)

SubBig(a, b) == Strip(BorrowFrom(a, b, 1, 0))

RECURSIVE LessFrom(_, _, _)
LessFrom(a, b, j) ==
    IF j = 0 THEN FALSE
    ELSE IF Limb(a, j) # Limb(b, j) THEN Limb(a, j) < Limb(b, j)
    ELSE LessFrom(a, b, j - 1)

LessBig(a, b) == LessFrom(a, b, Max2(Len(a), Len(b)))

\* Long division of a by a divisor below the limb base: [q, r]
RECURSIVE DivFrom(_, _, _, _)
DivFrom(a, d, j, rem) ==
    IF j = 0 THEN [q |-> << >>, r |-> rem]
    ELSE LET t    == rem * LimbBase + a[j]
             rest == DivFrom(a, d, j - 1, t % d)
         IN  [q |-> Append(rest.q, t \div d), r |-> rest.r]

DivSmall(a, d) ==
    LET res == DivFrom(a, d, Len(a), 0) IN [q |-> Strip(res.q), r |-> res.r]

RECURSIVE BitsOf(_)
BitsOf(x) == IF x = 0 THEN 0 ELSE 1 + BitsOf(x \div 2)

BitLen(a) == IF Len(a) = 0 THEN 0 ELSE LimbBits * (Len(a) - 1) + BitsOf(a[Len(a)])

Bit(a, j) == (Limb(a, j \div LimbBits + 1) \div (2 ^ (j % LimbBits))) % 2

ShiftRight(a, s) ==
    LET whole == s \div LimbBits
        part  == s % LimbBits
    IN  Strip([j \in 1..Max2(Len(a) - whole, 0) |->
                 Limb(a, j + whole) \div (2 ^ part)
                 + (Limb(a, j + whole + 1) % (2 ^ part)) * (2 ^ (LimbBits - part))])

Pow2Big(s) ==
    [j \in 1..(s \div LimbBits + 1) |->
        IF j = s \div LimbBits + 1 THEN 2 ^ (s % LimbBits) ELSE 0]

ShiftLeft(a, s) == MulBig(a, Pow2Big(s))

\* The double nearest to n * 2^e (ties to even); sticky tells that the exact
\* value lies strictly above n * 2^e and below (n + 1) * 2^e
RoundToDouble(n, e, sticky) ==
    LET len == BitLen(n)
    IN  IF len <= MantissaBits
        THEN [m |-> ShiftLeft(n, MantissaBits - len), e |-> e - (MantissaBits - len)]
        ELSE LET s     == len - MantissaBits
                 q     == ShiftRight(n, s)
                 guard == Bit(n, s - 1) = 1
                 below == sticky \/ \E j \in 0..(s - 2) : Bit(n, j) = 1
                 up    == guard /\ (below \/ Bit(q, 0) = 1)
                 q2    == IF up THEN AddBig(q, << 1 >>) ELSE q
             IN  IF BitLen(q2) > MantissaBits
                 THEN [m |-> ShiftRight(q2, 1), e |-> e + s + 1]
                 ELSE [m |-> q2, e |-> e + s]

MinExp(x, y) == IF x.e <= y.e THEN x.e ELSE y.e
Aligned(x, e) == ShiftLeft(x.m, x.e - e)

MulD(x, y) == RoundToDouble(MulBig(x.m, y.m), x.e + y.e, FALSE)
AddD(x, y) ==
    LET e == MinExp(x, y)
    IN  RoundToDouble(AddBig(Aligned(x, e), Aligned(y, e)), e, FALSE)
\* x - y for x > y
SubD(x, y) ==
    LET e == MinExp(x, y)
    IN  RoundToDouble(SubBig(Aligned(x, e), Aligned(y, e)), e, FALSE)
LessD(x, y) ==
    LET e == MinExp(x, y) IN LessBig(Aligned(x, e), Aligned(y, e))

\* The double of the quotient n / d of two positive integers, d below the
\* limb base: the value of a decimal literal, and of 2 / (period + 1)
GuardBits == 10 * 7
QuotientD(n, d) ==
    LET res == DivSmall(ShiftLeft(FromNat(n), GuardBits), d)
    IN  RoundToDouble(res.q, -GuardBits, res.r # 0)

OneD == QuotientD(1, 1)

(***************************************************************************)
(* ema on a flat series, in doubles.  indInput is the call's arguments     *)
(* (the close in cents, the period, the length of the series), indOutput   *)
(* the result array as far as it has been pushed.                          *)
(***************************************************************************)
FlatCloses  == { 100 * d : d \in 100..120 } \cup { 1309063, 2999999, 5780560 }
FlatPeriods == { Ema20Period, Ema50Period, Ema200Period }
MaxFlatLen  == 4

\* The double a price of so many cents is read as
CentsD(c) == QuotientD(c, 100)

\* const k = 2 / (period + 1)
kD(period) == QuotientD(2, period + 1)

\* variant: the second weight is taken from the next shorter period
oneMinusKShorter(period) == SubD(OneD, kD(period - 1))

\* (1 - k)
oneMinusKD(period) == SubD(OneD, kD(period))

\* const v = currentValue * k + prev * (1 - k)
emaStepD(currentValue, prev, period) ==
    AddD(MulD(currentValue, kD(period)), MulD(prev, oneMinusKD(period)))

LeqD(x, y) == ~LessD(y, x)

detectSignalD(priceD, prevPriceD, ema50Value, prevEma50Value, inPos) ==
    LET crossUp   == LeqD(prevPriceD, prevEma50Value) /\ LessD(ema50Value, priceD)
        crossDown == LeqD(prevEma50Value, prevPriceD) /\ LessD(priceD, ema50Value)
    IN  IF ~inPos /\ crossUp THEN "LONG"
        ELSE IF inPos /\ crossDown THEN "CLOSE_LONG"
        ELSE "HOLD"

InitFlat ==
    /\ engine = "ema"
    /\ pc = "start"
    /\ indInput \in [ fn : { "ema" }, close : FlatCloses, period : FlatPeriods,
                      length : 0..MaxFlatLen ]
    /\ indOutput = [ fn |-> "ema", result |-> << >> ]
    /\ optInput = [ variant |-> "none" ] /\ comboIndex = 0
    /\ allResults = << >> /\ runs = << >>
    /\ best = [ jointScore |-> 0 ] /\ strategyJson = [ written |-> FALSE ]
    /\ candles4h = << >> /\ candles1dLength = 0
    /\ cursor = 0 /\ windowIndex = 0 /\ windowResults = << >>
    /\ idleEngine

\* if (values.length === 0) return []
EmptyFlat ==
    /\ pc = "start" /\ engine = "ema"
    /\ indInput.length = 0
    /\ pc' = "done"
    /\ UNCHANGED <<engineVars, wfVars, optVars, indVars>>

\* let prev = firstValue; result.push(prev)
FirstFlat ==
    /\ pc = "start" /\ engine = "ema"
    /\ indInput.length > 0
    /\ indOutput' = [ indOutput EXCEPT !.result = << CentsD(indInput.close) >> ]
    /\ pc' = "emaLoop"
    /\ UNCHANGED <<engineVars, wfVars, optVars, indInput>>

\* One round of the for loop: result.push(v); prev = v
PushFlat ==
    /\ pc = "emaLoop" /\ engine = "ema"
    /\ Len(indOutput.result) < indInput.length
    /\ indOutput' = [ indOutput EXCEPT !.result =
                        Append(@, emaStepD(CentsD(indInput.close), Last(@),
                                           indInput.period)) ]
    /\ UNCHANGED <<engineVars, wfVars, optVars, indInput, pc>>

\* return result
ReturnFlat ==
    /\ pc = "emaLoop" /\ engine = "ema"
    /\ ~(Len(indOutput.result) < indInput.length)
    /\ pc' = "done"
    /\ UNCHANGED <<engineVars, wfVars, optVars, indVars>>

NextFlat == EmptyFlat \/ FirstFlat \/ PushFlat \/ ReturnFlat

SpecFlat == InitFlat /\ [][NextFlat]_vars

(***************************************************************************)
(* The three indicators called on their own, on series of every length up  *)
(* to MaxIndLen and with every period from 1 up to MaxIndPeriod, and with  *)
(* the periods the engines use (which no series here is long enough for).  *)
(***************************************************************************)
MaxIndLen    == 4
MaxIndPeriod == 3

IndSeries == { WithTail(<< >>, t) :
                 t \in UNION { [1..n -> TailBars] : n \in 0..MaxIndLen } }
IndPeriods == 1..MaxIndPeriod \cup { AtrPeriod, Ema50Period }

InitInd ==
    /\ engine = "indicator"
    /\ pc = "start"
    /\ indInput \in [ fn : { "ema", "atr", "rsi" }, candles : IndSeries,
                      period : IndPeriods ]
    /\ indOutput = [ fn |-> "none" ]
    /\ optInput = [ variant |-> "none" ] /\ comboIndex = 0
    /\ allResults = << >> /\ runs = << >>
    /\ best = [ jointScore |-> 0 ] /\ strategyJson = [ written |-> FALSE ]
    /\ candles4h = << >> /\ candles1dLength = 0
    /\ cursor = 0 /\ windowIndex = 0 /\ windowResults = << >>
    /\ idleEngine

\* ema(closes, period)
CallEma ==
    /\ pc = "start" /\ engine = "indicator" /\ indInput.fn = "ema"
    /\ indOutput' = [ fn |-> "ema",
                      result |-> ema(Closes(indInput.candles), indInput.period) ]
    /\ pc' = "done"
    /\ UNCHANGED <<engineVars, wfVars, optVars, indInput>>

\* atr(candles, period)
CallAtr ==
    /\ pc = "start" /\ engine = "indicator" /\ indInput.fn = "atr"
    /\ indOutput' = [ fn |-> "atr",
                      result |-> atr(indInput.candles, indInput.period) ]
    /\ pc' = "done"
    /\ UNCHANGED <<engineVars, wfVars, optVars, indInput>>

\* rsi(closes, period)
CallRsi ==
    /\ pc = "start" /\ engine = "indicator" /\ indInput.fn = "rsi"
    /\ indOutput' = [ fn |-> "rsi",
                      result |-> rsi(Closes(indInput.candles), indInput.period) ]
    /\ pc' = "done"
    /\ UNCHANGED <<engineVars, wfVars, optVars, indInput>>

NextInd == CallEma \/ CallAtr \/ CallRsi

SpecInd == InitInd /\ [][NextInd]_vars


(***************************************************************************)
(* Properties                                                              *)
(***************************************************************************)
CandleClosingAt(t) == CHOOSE c \in { candles[k] : k \in 1..Len(candles) } : c.closeTime = t

InLoop == pc = "loop" /\ i < Len(candles)

\* The bar under the loop is not skipped: its in-position branch runs
ExitsEvaluated ==
    /\ InLoop /\ inPosition
    /\ IF engine = "trend" THEN ~notReady /\ trendOk
       ELSE ~mrNotReady /\ ~mrTooQuiet

\* The detector's CLOSE_LONG condition on the bar under the loop
closeLongHolds ==
    IF engine = "trend"
    THEN detectSignal(price, prevPrice, e50, prevE50, TRUE) = "CLOSE_LONG"
    ELSE mrSignal = "CLOSE_LONG"

Sign(x) == IF x > 0 THEN 1 ELSE IF x < 0 THEN -1 ELSE 0

\* C1: the trades of a run never overlap in time: each trade exits strictly
\* before the next one enters, and a position that is open entered strictly
\* after the last recorded exit.
C1_TradesNeverOverlap ==
    /\ \A k \in 1..Len(trades) :
          /\ trades[k].entryTime <= trades[k].exitTime
          /\ k < Len(trades) => trades[k].exitTime < trades[k + 1].entryTime
    /\ (pc = "loop" /\ inPosition /\ trades # << >>)
          => Last(trades).exitTime < entryTime

C1_Witness ==
    /\ pc = "loop" /\ inPosition /\ Len(trades) >= 1
    /\ Last(trades).exitTime < entryTime

\* C2: on a bar whose exits are evaluated and where more than one exit
\* condition holds, exactly one trade is recorded and it carries the reason
\* of the highest-priority condition: SL before TP before the signal exit.
C2_ExitPriority ==
    [][ ( /\ ExitsEvaluated
          /\ \/ slHit /\ tpHit
             \/ slHit /\ closeLongHolds
             \/ tpHit /\ closeLongHolds )
        => /\ Len(trades') = Len(trades) + 1
           /\ ~inPosition'
           /\ Last(trades').exitTime = closeTime
           /\ Last(trades').exitReason = (IF slHit THEN "SL" ELSE "TP") ]_vars

\* a recorded SL exit on a bar that also reached the target
C2_Witness ==
    \E k \in 1..Len(trades) :
        LET t == trades[k]
            c == CandleClosingAt(t.exitTime)
        IN  /\ t.exitReason = "SL"
            /\ c.low * FracScale <= t.entryPrice * (FracScale - options.stopLossPct)
            /\ c.high * FracScale >= t.entryPrice * (FracScale + options.takeProfitPct)

\* C3: while a position is open, every bar at or after the warm-up index
\* whose indicator values are ready and that reaches the stop or the target
\* closes the position on that same bar, whatever the entry filters say.
C3_ExitsOnEveryReadyBar ==
    [][ ( /\ InLoop /\ inPosition
          /\ IF engine = "trend" THEN ~notReady ELSE ~mrNotReady
          /\ slHit \/ tpHit )
        => /\ ~inPosition'
           /\ Len(trades') = Len(trades) + 1 ]_vars

\* C4: every accepted entry is paired with exactly one trade; a position
\* still open after the last bar is closed by one trade at the final
\* candle's close and closeTime with reason "EMA", and nothing is appended
\* when no position is open.
C4_EntriesPairedWithTrades ==
    /\ pc = "loop" => entries = Len(trades) + (IF inPosition THEN 1 ELSE 0)
    /\ pc = "done" =>
          /\ entries = Len(trades)
          /\ result.totalTrades = entries
          /\ inPosition =>
                /\ Last(trades).entryTime = entryTime
                /\ Last(trades).entryPrice = entryPrice
                /\ Last(trades).exitPrice = Last(candles).close
                /\ Last(trades).exitTime = Last(candles).closeTime
                /\ Last(trades).exitReason = "EMA"

C4_Witness ==
    /\ pc = "done" /\ inPosition /\ Len(trades) >= 2
    /\ Last(trades).exitReason = "EMA"

\* C5 as claimed: in the trend engine, an in-position bar that hits neither
\* stop nor target and on which the breakout detector's CLOSE_LONG condition
\* holds closes the position at the bar's close with reason "EMA".
C5_SignalExitClosesPosition ==
    [][ ( /\ ExitsEvaluated /\ engine = "trend"
          /\ ~slHit /\ ~tpHit /\ closeLongHolds )
        => /\ ~inPosition'
           /\ Len(trades') = Len(trades) + 1
           /\ Last(trades').exitPrice = price
           /\ Last(trades').exitReason = "EMA" ]_vars

\* C5 as amended: in the trend engine, an in-position bar that hits neither
\* stop nor target leaves the position open and records no trade, whether or
\* not the detector's CLOSE_LONG condition holds.
C5_NoSignalExitInTrendEngine ==
    [][ ( /\ InLoop /\ inPosition /\ engine = "trend"
          /\ ~slHit /\ ~tpHit )
        => /\ inPosition'
           /\ trades' = trades
           /\ entryPrice' = entryPrice /\ entryTime' = entryTime ]_vars

\* the position is still open after an evaluated bar on which price crossed
\* down through the EMA50 without reaching stop or target
C5_Witness ==
    /\ pc = "loop" /\ engine = "trend" /\ inPosition
    /\ i > WarmUp /\ entryTime < At(candles, i - 1).closeTime
    /\ At(candles, i - 2).close >= At(ema50, i - 2)
    /\ At(candles, i - 1).close < At(ema50, i - 1)
    /\ At(candles, i - 1).low > stopPrice(entryPrice, options.stopLossPct)
    /\ At(candles, i - 1).high < tpPrice(entryPrice, options.takeProfitPct)
    /\ ~options.useTrendFilter /\ options.higherTFRegime = NoHTF

\* C6: an SL trade fills at exactly entryPrice*(1-stopLossPct), a TP trade at
\* exactly entryPrice*(1+takeProfitPct), a signal or forced exit at the close
\* of its exit bar.
C6_ExitFills ==
    \A k \in 1..Len(trades) :
        LET t == trades[k]
        IN  /\ t.exitReason = "SL" =>
                t.exitPrice * FracScale = t.entryPrice * (FracScale - options.stopLossPct)
            /\ t.exitReason = "TP" =>
                t.exitPrice * FracScale = t.entryPrice * (FracScale + options.takeProfitPct)
            /\ t.exitReason = "EMA" =>
                t.exitPrice = CandleClosingAt(t.exitTime).close

\* entry 100, stopLossPct 0.02, exit bar with low 97: exit at 98, reason SL,
\* -2% before fees
C6_Witness ==
    \E k \in 1..Len(trades) :
        LET t == trades[k]
        IN  /\ options.stopLossPct = 20
            /\ t.entryPrice = Dollar(100)
            /\ CandleClosingAt(t.exitTime).low = Dollar(97)
            /\ t.exitPrice = Dollar(98)
            /\ t.exitReason = "SL"
            /\ t.pnlPct = -2 * PctScale - 8

\* C7: every trade has pnlPct = (exitPrice/entryPrice - 1)*100 - 0.08: the
\* round-trip fee of 0.08% is subtracted exactly once.  In fixed point:
\* pnlPct + 8 is the floor of (exitPrice - entryPrice)*100/entryPrice.
C7_FeeChargedOnce ==
    \A k \in 1..Len(trades) :
        LET t == trades[k]
            g == t.pnlPct + 8
            num == (t.exitPrice - t.entryPrice) * 100 * PctScale
        IN  /\ g * t.entryPrice <= num
            /\ num < (g + 1) * t.entryPrice

C7_Witness ==
    /\ pc = "done" /\ Len(trades) >= 2
    /\ \E k \in 1..Len(trades) : trades[k].exitReason = "SL" /\ trades[k].pnlPct < -8
    /\ Last(trades).exitReason = "EMA"

\* C8: backtestSimpleBtcTrend returns null exactly when candles.length < 200,
\* runs to a result for every longer input, and records no trade when given
\* exactly 200 candles.
C8_NullIffTooShort ==
    engine = "trend" =>
        /\ pc = "null" => Len(candles) < 200
        /\ pc \in { "loop", "done" } => Len(candles) >= 200
        /\ pc = "loop" => i >= WarmUp /\ i <= Len(candles) /\ ENABLED (LoopTrend \/ FinishTrend)
        /\ (pc = "done" /\ Len(candles) = 200) =>
              trades = << >> /\ result.totalTrades = 0 /\ entries = 0

C8_Witness ==
    /\ engine = "trend" /\ pc = "done" /\ Len(candles) = 200
    /\ result.totalTrades = 0

NonDecreasing(s) == \A k \in 1..(Len(s) - 1) : s[k] <= s[k + 1]

curveEquities == [k \in 1..Len(result.equityCurve) |-> result.equityCurve[k].equity]

TrendDone == engine = "trend" /\ pc = "done"

\* C9 as claimed: maxDrawdownPct >= 0, and it is 0 exactly when the per-trade
\* equity values of equityCurve are non-decreasing.
C9_ZeroDrawdownIffCurveNonDecreasing ==
    TrendDone =>
        /\ result.maxDrawdownPct >= 0
        /\ result.maxDrawdownPct = 0 <=> NonDecreasing(curveEquities)

\* C9 as amended: maxDrawdownPct >= 0, and it is 0 exactly when the starting
\* equity 1.0 followed by the per-trade equity values of equityCurve is
\* non-decreasing.
C9_ZeroDrawdownIffNeverBelowStartOrPeak ==
    TrendDone =>
        /\ result.maxDrawdownPct >= 0
        /\ result.maxDrawdownPct = 0
              <=> NonDecreasing(<< EquityScale >> \o curveEquities)

\* a run whose curve values never decrease but start below 1.0
C9_Witness ==
    /\ TrendDone /\ Len(trades) >= 1
    /\ NonDecreasing(curveEquities)
    /\ curveEquities[1] < EquityScale
    /\ result.maxDrawdownPct > 0

\* C10 as claimed: with at least one trade, totalReturnPct and final equity
\* minus 1 have the same sign.
C10_TotalAndEquitySameSign ==
    (TrendDone /\ trades # << >>) =>
        Sign(result.totalReturnPct) = Sign(result.equity - EquityScale)

\* C10 as amended: with at least one trade, a negative totalReturnPct comes
\* with final equity below 1, a zero totalReturnPct with final equity at most
\* 1, and final equity above 1 with a positive totalReturnPct.
C10_NonPositiveTotalBoundsEquity ==
    (TrendDone /\ trades # << >>) =>
        /\ result.totalReturnPct < 0 => result.equity < EquityScale
        /\ result.totalReturnPct = 0 => result.equity <= EquityScale
        /\ result.equity > EquityScale => result.totalReturnPct > 0

C10_Witness ==
    /\ TrendDone /\ Len(trades) >= 2
    /\ result.totalReturnPct < 0
    /\ result.equity < EquityScale

\* The window that starts at cursor position c would be recorded
Recordable(c) ==
    LET tr == sliceByTime(candles4h, c, c + trainMs)
        te == sliceByTime(candles4h, c + trainMs, c + trainMs + testMs)
    IN  /\ ~(Len(tr) < MinTrain4h \/ Len(te) < MinTest4h)
        /\ ~(backtestFails(tr) \/ backtestFails(te))

Contiguous(k) == windowResults[k + 1].testStart = windowResults[k].testEnd

\* C11 as claimed: the test ranges of the recorded windows never overlap and
\* each recorded window's test range starts exactly where the test range of
\* the recorded window before it ends.
C11_TestRangesContiguous ==
    \A k \in 1..(Len(windowResults) - 1) : Contiguous(k)

\* C11 as amended: the test ranges of the recorded windows never overlap;
\* the test range of recorded window k+1 starts n test lengths after the
\* test range of recorded window k ends, where n >= 0 is the number of
\* windows skipped between the two, so the two ranges are contiguous exactly
\* when no window was skipped between them.
C11_TestRangesDisjointWithSkips ==
    \A k \in 1..(Len(windowResults) - 1) :
        LET w == windowResults[k]
            v == windowResults[k + 1]
            n == (v.testStart - w.testEnd) \div testMs
        IN  /\ w.testEnd = w.testStart + testMs
            /\ v.testStart >= w.testEnd
            /\ v.testStart = w.testEnd + n * testMs
            /\ \A j \in 1..n : ~Recordable(w.trainStart + j * testMs)

\* three recorded windows, two of them back to back and two of them a
\* skipped window apart
C11_Witness ==
    /\ Len(windowResults) >= 3
    /\ \E k \in 1..(Len(windowResults) - 1) : Contiguous(k)
    /\ \E k \in 1..(Len(windowResults) - 1) :
          windowResults[k + 1].testStart = windowResults[k].testEnd + testMs

\* C12: the walk-forward loop terminates: every iteration that stays in the
\* loop, recorded or skipped, moves the cursor by exactly the test length;
\* the loop is left exactly on the first iteration whose testEnd is past the
\* last candle's closeTime; every recorded window has testEnd <= that time.
C12_WalkForwardTerminates ==
    /\ [][ (pc = "wfLoop" /\ pc' = "wfLoop") => cursor' = cursor + testMs ]_vars
    /\ [][ pc = "wfLoop" => (pc' = "wfDone" <=> testEnd > lastTime) ]_vars
    /\ [](\A k \in 1..Len(windowResults) : windowResults[k].testEnd <= lastTime)
    /\ <>(pc \in { "wfDone", "return" })

\* the loop has ended after recording and skipping windows
C12_Witness ==
    /\ pc = "wfDone"
    /\ Len(windowResults) >= 2
    /\ windowIndex > Len(windowResults)
    /\ cursor > firstTime + 2 * testMs
    /\ testEnd > lastTime

\* C13: when no grid point meets both trade-count minimums the optimizer
\* finishes normally with an empty list: no error is raised, no best
\* configuration is selected and strategy.json is not written.
C13_EmptyListEndsQuietly ==
    /\ pc # "error"
    /\ (engine = "optimizer" /\ pc = "grid" /\ comboIndex > Len(optInput.grid)
          /\ allResults = << >>)
          => ENABLED EmptyOpt
    /\ (engine = "optimizer" /\ pc = "done"
          /\ \A k \in 1..Len(runs) :
                trainRejected(runs[k].train) \/ testRejected(runs[k].test))
          => /\ allResults = << >>
             /\ best = [ jointScore |-> 0 ]
             /\ ~strategyJson.written

\* a 1-point grid whose test run has no trade, with the write-back switched on
C13_Witness ==
    /\ engine = "optimizer" /\ pc = "done"
    /\ optInput.autoUpdate
    /\ Len(optInput.grid) = 1 /\ Len(runs) = 1
    /\ runs[1].testRun /\ ~runs[1].test.isNull /\ runs[1].test.totalTrades = 0
    /\ allResults = << >>

\* The flat series' close as the double the source reads
flatClose == CentsD(indInput.close)

\* The breakout detector at index idx of the flat series, out of position
flatSignal(idx) ==
    detectSignalD(flatClose, flatClose, At(indOutput.result, idx),
                  At(indOutput.result, idx - 1), FALSE)

FlatCall == engine = "ema" /\ pc \in { "emaLoop", "done" }

\* C14 as claimed: on a flat series ema(closes, period) equals the close at
\* every index, so that detectSignal returns LONG at no index and no trade
\* is opened.
C14_FlatEmaEqualsClose ==
    FlatCall =>
        /\ \A idx \in 0..(Len(indOutput.result) - 1) :
              At(indOutput.result, idx) = flatClose
        /\ \A idx \in 1..(Len(indOutput.result) - 1) : flatSignal(idx) # "LONG"

\* C14 as amended: on a flat series ema(closes, 50), the series every caller
\* hands to detectSignal, starts at the close and is never below it
\* afterwards (rounding may leave it a few units in the last place above),
\* so that detectSignal returns LONG at no index and no trade is opened.
C14_FlatEma50NeverBelowClose ==
    (FlatCall /\ indInput.period = Ema50Period) =>
        /\ Len(indOutput.result) <= indInput.length
        /\ pc = "done" => Len(indOutput.result) = indInput.length
        /\ Len(indOutput.result) > 0 => At(indOutput.result, 0) = flatClose
        /\ \A idx \in 0..(Len(indOutput.result) - 1) :
              /\ LeqD(flatClose, At(indOutput.result, idx))
              /\ LessD(At(indOutput.result, idx),
                       MulD(flatClose, QuotientD(1001, 1000)))
        /\ \A idx \in 1..(Len(indOutput.result) - 1) : flatSignal(idx) # "LONG"

\* A finished ema(closes, 50) on a flat series that has left the close
C14_Witness ==
    /\ engine = "ema" /\ pc = "done"
    /\ indInput.period = Ema50Period
    /\ Len(indOutput.result) = MaxFlatLen
    /\ LessD(flatClose, Last(indOutput.result))
    /\ \A idx \in 1..(Len(indOutput.result) - 1) : flatSignal(idx) # "LONG"

IndReturned == engine = "indicator" /\ pc = "done"

\* C15: on a series of n finite values and with a period p >= 1, ema returns
\* n values, all of them numbers; atr and rsi return n values of which
\* exactly those at the indices i < p are NaN and every one at an index
\* i >= p is a number.
C15_IndicatorLengthsAndWarmUp ==
    IndReturned =>
        LET n   == Len(indInput.candles)
            p   == indInput.period
            out == indOutput.result
        IN  /\ Len(out) = n
            /\ indOutput.fn = "ema" => \A idx \in 0..(n - 1) : At(out, idx) >= 0
            /\ indOutput.fn \in { "atr", "rsi" } =>
                  \A idx \in 0..(n - 1) :
                     /\ idx < p => At(out, idx) = NaN
                     /\ idx >= p => At(out, idx) # NaN /\ At(out, idx) >= 0

\* atr or rsi has returned a series that is longer than its period by two or
\* more, so that NaN, the seed value and a smoothed value are all in it
C15_Witness ==
    /\ IndReturned
    /\ indOutput.fn \in { "atr", "rsi" }
    /\ Len(indOutput.result) >= indInput.period + 2
    /\ At(indOutput.result, indInput.period - 1) = NaN
    /\ At(indOutput.result, indInput.period + 1) # NaN

\* The options the run was called with contradict themselves
InvalidConfig ==
    IF engine = "trend" THEN options.minRsiForEntry >= options.maxRsiForEntry
    ELSE IF engine = "meanRevert" THEN options.bandKExit >= options.bandKEnter
    ELSE FALSE

\* C16 as claimed: a run whose options have minRsiForEntry >= maxRsiForEntry
\* (trend engine) or bandKExit >= bandKEnter (mean-reversion engine) is
\* rejected when it is set up: it never reaches the bar loop and never
\* returns a result.
C16_InvalidConfigRejected ==
    InvalidConfig => pc \notin { "loop", "done" }

\* C17: a run of the trend engine that ends with no trade returns
\* totalReturnPct, avgReturnPct, winRate, maxDrawdownPct and
\* annualizedReturnPct all equal to 0; a run whose last exit is not later
\* than its first entry returns annualizedReturnPct 0 (the power is not
\* taken).
C17_DegenerateStatsAreZero ==
    TrendDone =>
        /\ Len(trades) = 0 =>
              /\ result.totalTrades = 0
              /\ result.totalReturnPct = 0
              /\ result.avgReturnPct = 0
              /\ result.winRate = 0
              /\ result.maxDrawdownPct = 0
              /\ ~result.annualizedReturnPct.pow
        /\ (Len(trades) > 0 /\ Last(trades).exitTime - trades[1].entryTime <= 0)
              => ~result.annualizedReturnPct.pow

\* A run whose only position was opened on the final bar and closed there
\* by the forced close
C17_Witness ==
    /\ TrendDone
    /\ Len(trades) = 1
    /\ trades[1].entryTime = Last(candles).closeTime
    /\ trades[1].exitTime = trades[1].entryTime
    /\ result.totalTrades = 1
    /\ ~result.annualizedReturnPct.pow

\* C18: no bar before index 200 is evaluated: the bar loop never stands
\* before index 200, and every trade, like the open position, was entered
\* at or after the close of candles[200], whatever the first 200 bars are.
C18_NoTradeBeforeWarmUp ==
    (engine = "trend" /\ pc \in { "loop", "done" }) =>
        /\ i >= 200
        /\ \A k \in 1..Len(trades) :
              /\ Len(candles) > 200
              /\ trades[k].entryTime >= At(candles, 200).closeTime
        /\ inPosition =>
              /\ Len(candles) > 200
              /\ entryTime >= At(candles, 200).closeTime

\* A finished run with a trade entered on the close of candles[200] itself
C18_Witness ==
    /\ TrendDone
    /\ Len(trades) >= 1
    /\ trades[1].entryTime = At(candles, 200).closeTime

\* The index of the bar that closes at t
BarClosingAt(t) == CHOOSE idx \in 0..(Len(candles) - 1) : At(candles, idx).closeTime = t

\* atr14[idx] / closes[idx] > minAtrPct
enoughVolAt(idx) ==
    /\ ~IsNaN(At(atr14, idx))
    /\ At(atr14, idx) * FracScale > options.minAtrPct * At(candles, idx).close

\* C19 as claimed: whatever the options, useTrendFilter = false included,
\* the trend engine opens a position only on a bar whose ATR14 / close is
\* above minAtrPct: the open position and every trade were entered on such
\* a bar.
C19_EntryOnlyWithEnoughVol ==
    (engine = "trend" /\ pc \in { "loop", "done" }) =>
        /\ inPosition => enoughVolAt(BarClosingAt(entryTime))
        /\ \A k \in 1..Len(trades) : enoughVolAt(BarClosingAt(trades[k].entryTime))

\* The higher-timeframe regime in force at time t: that of the last entry of
\* the series whose time is not after t (of the first entry when there is none)
lookedUpRegime(t) == At(htRegimes, htAdvance(htTimes, 0, t))

allowedAt(t) == InSeq(lookedUpRegime(t), options.allowedHigherTFRegimes)

TrendRunWithHTF ==
    engine = "trend" /\ pc \in { "loop", "done" } /\ Len(htTimes) > 0

LookupRuns ==
    engine = "trend" /\ InLoop /\ ~notReady /\ Len(htTimes) > 0

\* The largest j with times[j] <= t (times ascending, times[0] <= t)
LargestNotAfter(times, t) ==
    CHOOSE j \in 0..(Len(times) - 1) :
        /\ At(times, j) <= t
        /\ \A j2 \in 0..(Len(times) - 1) : At(times, j2) <= t => j2 <= j

\* C21: in a run with a higher-timeframe series the pointer htIndex never
\* moves back from one bar to the next, stays within 0 .. times.length - 1,
\* and after the lookup on a bar that closes at t >= times[0] it is the
\* largest j with times[j] <= t.
C21_PointerForwardOnly ==
    /\ [][engine = "trend" => htIndex' >= htIndex]_vars
    /\ []((engine = "trend" /\ Len(htTimes) > 0) =>
              (0 <= htIndex /\ htIndex < Len(htTimes)))
    /\ [][(LookupRuns /\ At(htTimes, 0) <= closeTime) =>
              htIndex' = LargestNotAfter(htTimes, closeTime)]_vars

\* The pointer has gone over two entries of a three-entry series on one bar
C21_Witness ==
    /\ engine = "trend" /\ pc = "loop" /\ i = 203
    /\ Len(htTimes) = 3 /\ htIndex = 2
    /\ At(htTimes, 1) > At(candles, 201).closeTime
    /\ At(htTimes, 2) <= At(candles, 202).closeTime

\* The bar under the loop has an indicator that is not ready
IndicatorNotReady ==
    /\ InLoop
    /\ IF engine = "trend" THEN IsNaN(At(rsiSeries, i)) \/ IsNaN(At(atr14, i))
       ELSE IF engine = "meanRevert" THEN IsNaN(At(atr14, i))
       ELSE FALSE

\* C22: a bar whose ATR or RSI is not ready is skipped: inPosition,
\* entryPrice, entryTime and the trades are after the bar what they were
\* before it, and the loop goes on to the next bar.
C22_SkippedBarLeavesState ==
    [][IndicatorNotReady =>
          /\ UNCHANGED <<inPosition, entryPrice, entryTime, trades>>
          /\ pc' = "loop" /\ i' = i + 1]_vars

\* Bar 200 was a breakout with the RSI not ready: it has been passed and no
\* position was taken
C22_Witness ==
    /\ engine = "trend" /\ pc = "loop" /\ i = 201
    /\ IsNaN(At(rsiSeries, 200))
    /\ detectSignal(At(candles, 200).close, At(candles, 199).close,
                    At(ema50, 200), At(ema50, 199), FALSE) = "LONG"
    /\ ~inPosition /\ Len(trades) = 0

\* C23 as claimed: a window with a slice below the warm-up minimum adds no
\* entry to the results and takes no window number: the counter equals the
\* number of recorded windows and these carry the indices 1, 2, ..., n.
C23_SkippedWindowTakesNoNumber ==
    engine = "walkForward" =>
        /\ windowIndex = Len(windowResults)
        /\ \A k \in 1..Len(windowResults) : windowResults[k].index = k

\* The test range of the k-th recorded window holds candle c
InTestOf(k, c) == InWindow(c, windowResults[k].testStart, windowResults[k].testEnd)

\* C24: the candles have openTime < closeTime.  No candle is in both the
\* train slice and the test slice of the window under the loop; none is in
\* the test slices of two different windows (recorded ones, or a recorded
\* one and the window under the loop); and the last candle of the train
\* slice closes no later than the first of the test slice opens.
C24_SlicesDisjoint ==
    (engine = "walkForward" /\ pc = "wfLoop") =>
        /\ \A n \in 1..Len(candles4h) :
              LET c == candles4h[n]
              IN  /\ c.openTime < c.closeTime
                  /\ ~(InWindow(c, trainStart, trainEnd) /\ InWindow(c, testStart, testEnd))
                  /\ \A k \in 1..Len(windowResults) :
                        /\ ~(InTestOf(k, c) /\ InWindow(c, testStart, testEnd))
                        /\ \A l \in (k + 1)..Len(windowResults) :
                              ~(InTestOf(k, c) /\ InTestOf(l, c))
        /\ LET tr == train4h
               te == test4h
               lastClose == Last(tr).closeTime
               firstOpen == te[1].openTime
           IN  (Len(tr) > 0 /\ Len(te) > 0) =>
                  /\ lastClose <= firstOpen
                  /\ \A n \in 1..Len(tr) : tr[n].closeTime <= lastClose
                  /\ \A n \in 1..Len(te) : te[n].openTime >= firstOpen

\* Two windows are recorded, and the window under the loop has candles in
\* both its slices, one of them opening exactly where train ends and test
\* begins
C24_Witness ==
    /\ engine = "walkForward" /\ pc = "wfLoop"
    /\ Len(windowResults) >= 2
    /\ Len(train4h) > 0 /\ Len(test4h) > 0
    /\ test4h[1].openTime = testStart

\* The run of a grid point has enough trades in both halves
Qualifies(run) ==
    /\ ~run.train.isNull /\ run.testRun /\ ~run.test.isNull
    /\ IF run.train.isNull \/ run.test.isNull THEN FALSE
       ELSE /\ run.train.totalTrades >= MIN_TRAIN_TRADES
            /\ run.test.totalTrades >= MIN_TEST_TRADES

\* How many entries of the list belong to the grid point p
ListedTimes(p) == Cardinality({ n \in 1..Len(allResults) : allResults[n].params = p })

\* C25: the optimizer's list holds exactly the grid points whose train run
\* has at least MIN_TRAIN_TRADES trades and whose test run has at least
\* MIN_TEST_TRADES trades, each once and with the results of its two runs;
\* a grid point whose train run is missing or too small is dropped without
\* its test run being started.
C25_ListIsTheQualifyingPoints ==
    engine = "optimizer" =>
        /\ \A k \in 1..Len(runs) :
              /\ ListedTimes(runs[k].params) = IF Qualifies(runs[k]) THEN 1 ELSE 0
              /\ Qualifies(runs[k]) =>
                    \E n \in 1..Len(allResults) :
                       /\ allResults[n].params = runs[k].params
                       /\ allResults[n].train = runs[k].train
                       /\ allResults[n].test = runs[k].test
              /\ (IF runs[k].train.isNull THEN TRUE
                  ELSE runs[k].train.totalTrades < MIN_TRAIN_TRADES)
                    => ~runs[k].testRun
        /\ \A n \in 1..Len(allResults) :
              \E k \in 1..Len(runs) : runs[k].params = allResults[n].params
        /\ pc = "done" => Len(runs) = Len(optInput.grid)

\* A finished scan of three grid points: one turned away on its train run,
\* one on its test run, one listed
C25_Witness ==
    /\ engine = "optimizer" /\ pc = "done"
    /\ Len(runs) = 3 /\ Len(allResults) = 1
    /\ \E k \in 1..3 : ~runs[k].testRun
    /\ \E k \in 1..3 : runs[k].testRun /\ ~Qualifies(runs[k])
    /\ \E k \in 1..3 : Qualifies(runs[k])

\* C26: every listed entry carries
\* jointScore = 0.4 * (train.totalReturnPct - 0.5 * train.maxDrawdownPct)
\*            + 0.6 * (test.totalReturnPct - 0.5 * test.maxDrawdownPct)
\* (here times 20, so that all terms are whole), the two weights add up to one
\* and the test weight is not the smaller one; once ranked the list is in
\* non-increasing jointScore order and best is an entry of maximal jointScore.
C26_RankedByJointScore ==
    engine = "optimizer" =>
        /\ TRAIN_WEIGHT + TEST_WEIGHT = 10 /\ TEST_WEIGHT >= TRAIN_WEIGHT
        /\ \A n \in 1..Len(allResults) :
              allResults[n].jointScore =
                  8 * allResults[n].train.totalReturnPct
                  - 4 * allResults[n].train.maxDrawdownPct
                  + 12 * allResults[n].test.totalReturnPct
                  - 6 * allResults[n].test.maxDrawdownPct
        /\ (pc = "done" /\ Len(allResults) > 0) =>
              /\ \A n \in 1..(Len(allResults) - 1) :
                    allResults[n].jointScore >= allResults[n + 1].jointScore
              /\ best = allResults[1]
              /\ \A n \in 1..Len(allResults) : best.jointScore >= allResults[n].jointScore

\* Three listed grid points with three different scores, the one scanned last
\* ranked first
C26_Witness ==
    /\ engine = "optimizer" /\ pc = "done"
    /\ Len(allResults) = 3 /\ Len(runs) = 3
    /\ allResults[1].params = runs[3].params
    /\ allResults[1].jointScore > allResults[2].jointScore
    /\ allResults[2].jointScore > allResults[3].jointScore
    /\ best.params = runs[3].params

\* Bar idx closes above both EMAs and above the high of the bar before it
BreakoutAt(idx) ==
    /\ At(candles, idx).close > At(ema50, idx)
    /\ At(candles, idx).close > At(ema200, idx)
    /\ At(candles, idx).close > At(candles, idx - 1).high

\* C27: detectSignalV3 answers LONG only when not in a position, bar i closes
\* above ema50[i], above ema200[i] and above the high of bar i-1, and candle
\* i+1 exists and closes above bar i; it answers HOLD at the last index and
\* never CLOSE_LONG; so with useV3Signal no position is opened on the final
\* bar of the data.
C27_V3EntryNeedsConfirmation ==
    /\ []((engine = "trend" /\ pc = "loop") =>
            \A idx \in WarmUp..(Len(candles) - 1), inPos \in BOOLEAN :
               LET s == detectSignalV3(candles, idx, ema50, ema200, inPos)
               IN  /\ s \in { "LONG", "HOLD" }
                   /\ s = "LONG" =>
                         /\ ~inPos
                         /\ BreakoutAt(idx)
                         /\ idx + 1 < Len(candles)
                         /\ At(candles, idx + 1).close > At(candles, idx).close
                   /\ idx = Len(candles) - 1 => s = "HOLD")
    /\ [][(engine = "trend" /\ options.useV3Signal /\ pc = "loop"
           /\ i = Len(candles) - 1 /\ ~inPosition)
          => (~inPosition' /\ entries' = entries)]_vars

\* A run with the loose-confirm signal: bar 200 broke out, bar 201 closed
\* higher and the position was opened at bar 200 and later stopped out; the
\* final bar broke out as well, with no position open, and was passed over
C27_Witness ==
    /\ engine = "trend" /\ options.useV3Signal
    /\ pc = "loop" /\ i = Len(candles) /\ Len(candles) = WarmUp + 4
    /\ entries = 1 /\ Len(trades) = 1 /\ ~inPosition
    /\ trades[1].entryTime = At(candles, WarmUp).closeTime
    /\ BreakoutAt(WarmUp)
    /\ At(candles, WarmUp + 1).close > At(candles, WarmUp).close
    /\ BreakoutAt(Len(candles) - 1)
    /\ ~IsNaN(At(rsiSeries, Len(candles) - 1))
    /\ At(rsiSeries, Len(candles) - 1) <= options.maxRsiForEntry * PctScale
    /\ At(rsiSeries, Len(candles) - 1) >= options.minRsiForEntry * PctScale

\* C28: the higher-timeframe regime applied to a bar closing at t comes from
\* a series entry with timestamp <= t; on a bar that closes before the first
\* entry of the series the filter's answer is not decided by an entry with a
\* later timestamp, so such a bar is never turned away by the filter.
C28_RegimeNeverFromTheFuture ==
    /\ [][(LookupRuns /\ At(htTimes, 0) <= closeTime)
          => At(htTimes, htIndex') <= closeTime]_vars
    /\ [][(LookupRuns /\ At(htTimes, 0) > closeTime) => higherRegimeOk(closeTime)]_vars

\* C29: a position is never closed by the stop-loss or the take-profit on
\* the bar that opened it: the step that opens a position pushes no trade,
\* every SL or TP trade has exitTime > entryTime, and exitTime = entryTime
\* is found only on the forced close, at the end of the data, of a position
\* opened on the final bar.
C29_NoExitOnEntryBar ==
    /\ []((engine = "trend") =>
            \A k \in 1..Len(trades) :
               /\ trades[k].exitTime >= trades[k].entryTime
               /\ trades[k].exitReason \in { "SL", "TP" }
                     => trades[k].exitTime > trades[k].entryTime
               /\ trades[k].exitTime = trades[k].entryTime
                     => /\ pc = "done" /\ k = Len(trades)
                        /\ trades[k].exitReason = "EMA"
                        /\ trades[k].entryTime = Last(candles).closeTime)
    /\ [][(engine = "trend" /\ entries' = entries + 1)
          => (inPosition' /\ trades' = trades /\ entryTime' = closeTime)]_vars

\* A finished run with a position opened on bar 200, whose low is under the
\* stop price, and stopped out on a later bar, and a second one opened on the final bar and closed there by
\* the forced close
C29_Witness ==
    /\ engine = "trend" /\ pc = "done" /\ Len(trades) = 2
    /\ At(candles, WarmUp).low <= stopPrice(trades[1].entryPrice, options.stopLossPct)
    /\ trades[1].exitReason = "SL"
    /\ trades[1].entryTime = At(candles, WarmUp).closeTime
    /\ trades[1].exitTime > trades[1].entryTime
    /\ trades[2].exitReason = "EMA"
    /\ trades[2].entryTime = Last(candles).closeTime
    /\ trades[2].exitTime = trades[2].entryTime

\* The state of the run under way, and the same from its own indicator series
runState ==
    [ htIndex |-> htIndex, inPosition |-> inPosition, entryPrice |-> entryPrice,
      entryTime |-> entryTime, trades |-> trades ]

ownIndicators ==
    [ ema50 |-> ema50, ema200 |-> ema200, atr14 |-> atr14, rsiSeries |-> rsiSeries ]

\* The bars of the trend run before index i are processed, bar i - 1 being
\* the last of them
BarsProcessed == engine = "trend" /\ pc = "loop" /\ i > WarmUp

\* What a run sees of the candles when it may look ahead bars past bar i - 1
SeenUpTo(ahead) ==
    IF i + ahead >= Len(candles) THEN candles ELSE SubSeq(candles, 1, i + ahead)

\* The position and the trades of a run on what is seen, once bar i - 1 is
\* processed.  Two sequences that agree on what is seen both give this.
StateOnSeen(ahead) ==
    LET seen == SeenUpTo(ahead)
        ind  == IF Len(seen) = Len(candles) THEN ownIndicators
                ELSE indicators(seen, options)
    IN  stateAfter(seen, options, ind, i)

\* The loop function agrees with the run under way
ReplayAgrees == BarsProcessed => runState = stateAfter(candles, options, ownIndicators, i)

\* C30 as claimed: under every signal variant the position (inPosition,
\* entryPrice, entryTime) and the trades after bar i are those of a run that
\* is given the candles 0..i alone, so two sequences agreeing on 0..i cannot
\* be told apart after bar i.
C30_CausalForEveryVariant ==
    [](/\ ReplayAgrees
       /\ BarsProcessed => runState = StateOnSeen(0))

\* C30 amended: the same for the breakout and the pullback signal; under
\* the loose-confirm signal the state after bar i is that of a run given the
\* candles 0..i+1.
C30_CausalUpToConfirmation ==
    [](/\ ReplayAgrees
       /\ BarsProcessed => runState = StateOnSeen(IF options.useV3Signal THEN 1 ELSE 0))

\* A pullback-signal run that opened its position on bar 200 with three
\* more candles to come
C30_Witness ==
    /\ BarsProcessed /\ i = WarmUp + 1 /\ Len(candles) = WarmUp + 4
    /\ options.useV2Signal /\ ~options.useV3Signal
    /\ inPosition /\ entryTime = At(candles, WarmUp).closeTime
    /\ Len(SeenUpTo(0)) = WarmUp + 1

=============================================================================
